---- MODULE Spec2Model ----
(***************************************************************************)
(* Policy-gated credential verification of the bind-protocol examples:     *)
(* the vehicle-risk verifier (DIMO risk band) and the credit-score         *)
(* verifier.  Both scripts share the helpers validatePolicy,               *)
(* checkFreshness and displayResults; the vehicle-risk one adds            *)
(* resolveBandLabel.  Strings the code inspects character by character     *)
(* (policy version, TTL, string claims) are tuples of one-character        *)
(* strings; strings the code only compares or prints are TLA+ strings.     *)
(***************************************************************************)
EXTENDS Integers, Sequences, FiniteSets, TLC

VARIABLES
    domain,           \* which verifier script runs: "vehicle" or "credit"
    pc,               \* position of the run
    exitCode,         \* -1 while running, else the process exit code
    policy,           \* the PolicyLike in hand, or NoPolicy (null)
    policyValidated,  \* verifyDirect / verifySharedProof local flag
    out,              \* console trace, a sequence of Line records
    now,              \* Date.now(), in hours
    completedAt,      \* [present, t]: job.completedAt (nullable), in hours
    fallbackDate,     \* createdAt of the job / share, in hours
    ageDays,          \* checkFreshness local
    ttlDays,          \* checkFreshness local
    claims,           \* verifyResult.claims: key -> JS value
    report,           \* what displayResults printed about the decision
    mode,             \* "none", "direct" (verifyDirect) or "shared" (verifySharedProof)
    env,              \* process.env: which variables are set
    calls,            \* BindClient methods called so far, in order
    step,             \* verifyDirect / verifySharedProof local step counter
    proof,            \* what the prove job / shared proof / circuit said
    ext,              \* outcome of getPolicy, listPolicies, issue, verify
    scorer            \* the reference scorer of the submit scripts

\* State of the orchestration around the helpers
orchVars == << mode, env, calls, step, proof, ext, scorer >>

vars == << domain, pc, exitCode, policy, policyValidated, out, now,
           completedAt, fallbackDate, ageDays, ttlDays, claims, report,
           mode, env, calls, step, proof, ext, scorer >>

----------------------------------------------------------------------------
(* Bounds of the model *)

MaxVerLen == 3        \* longest policy version string
MaxOutputs == 2       \* longest policy outputs list
MaxTtlLen == 4        \* longest validity.ttl string
MaxBands == 4         \* longest band table of an output
MaxIndex == 5         \* largest numeric claim value
MaxClaimLen == 2      \* longest string claim value

----------------------------------------------------------------------------
(* Generic helpers *)

RECURSIVE SeqsUpTo(_, _)
SeqsUpTo(S, n) ==
    IF n = 0 THEN { << >> }
    ELSE LET shorter == SeqsUpTo(S, n - 1)
         IN  shorter \cup { Append(s, x) : s \in { t \in shorter : Len(t) = n - 1 }, x \in S }

Line(tag, num, labels) == [tag |-> tag, num |-> num, labels |-> labels]

Tags(lines) == { lines[i].tag : i \in 1..Len(lines) }

----------------------------------------------------------------------------
(* PolicyLike *)

NoPolicy == [isNull |-> TRUE]

\* Nothing printed by displayResults yet
NoReport == [printed |-> FALSE]

Undefined == "undefined"

\* startsWith comparing the first character only
startsWithFirstChar(s, prefix) ==
    /\ Len(s) >= 1
    /\ s[1] = prefix[1]

\* String.prototype.startsWith
startsWith(s, prefix) ==
    /\ Len(s) >= Len(prefix)
    /\ \A i \in 1..Len(prefix) : s[i] = prefix[i]

\* find whose callback assigns (o.name = name) instead of comparing: first element
findOutputAssign(outputs, name) ==
    IF Len(outputs) = 0 THEN 0 ELSE 1

\* Array.prototype.find by output name: index of the first match, 0 if none
findOutput(outputs, name) ==
    LET hits == { i \in 1..Len(outputs) : outputs[i].name = name }
    IN  IF hits = {} THEN 0 ELSE CHOOSE i \in hits : \A j \in hits : i <= j

\* policy.disclosure?.exposeClaims?.includes(name)
isDisclosed(p, name) ==
    /\ p.disclosure.defined
    /\ p.disclosure.exposeDefined
    /\ name \in p.disclosure.exposeClaims

\* bands.map((b) => b.label)
bandLabels(bands) == [i \in 1..Len(bands) |-> bands[i].label]

Accepted(findings) == [ok |-> TRUE, err |-> "", findings |-> findings]
Rejected(err) == [ok |-> FALSE, err |-> err, findings |-> << >>]

\* validatePolicy of the vehicle-risk verifier hard-failing on an undisclosed output
validatePolicyRiskStrict(p) ==
    IF ~startsWith(p.version, << "0", "." >>)
    THEN Rejected("Unsupported policy version")
    ELSE IF p.subject.type # "vehicle"
    THEN Rejected("Unexpected subject type")
    ELSE LET k == findOutput(p.outputs, "riskBand") IN
         IF k = 0
         THEN Rejected("Policy missing required 'riskBand' output")
         ELSE IF ~isDisclosed(p, "riskBand")
         THEN Rejected("Risk band is not disclosed")
         ELSE LET riskOutput == p.outputs[k]
                  f1 == << Line("Version", 0, << >>),
                           Line("Subject type", 0, << >>),
                           Line("Has output", 0, << riskOutput.name >>) >>
                  f2 == IF riskOutput.derive.kind = "BAND"
                        THEN << Line("Uses BAND derivation", 0, << >>) >>
                             \o (IF riskOutput.derive.hasBands
                                 THEN << Line("Risk bands", 0,
                                              bandLabels(riskOutput.derive.bands)) >>
                                 ELSE << >>)
                        ELSE << >>
              IN  Accepted(f1 \o f2 \o << Line("Risk band is disclosed", 0, << >>) >>)

\* validatePolicy of the vehicle-risk verifier
validatePolicyRisk(p) ==
    IF ~startsWith(p.version, << "0", "." >>)
    THEN Rejected("Unsupported policy version")
    ELSE IF p.subject.type # "vehicle"
    THEN Rejected("Unexpected subject type")
    ELSE LET k == findOutput(p.outputs, "riskBand") IN
         IF k = 0
         THEN Rejected("Policy missing required 'riskBand' output")
         ELSE LET riskOutput == p.outputs[k]
                  f1 == << Line("Version", 0, << >>),
                           Line("Subject type", 0, << >>),
                           Line("Has output", 0, << riskOutput.name >>) >>
                  f2 == IF riskOutput.derive.kind = "BAND"
                        THEN << Line("Uses BAND derivation", 0, << >>) >>
                             \o (IF riskOutput.derive.hasBands
                                 THEN << Line("Risk bands", 0,
                                              bandLabels(riskOutput.derive.bands)) >>
                                 ELSE << >>)
                        ELSE << >>
                  f3 == IF isDisclosed(p, "riskBand")
                        THEN << Line("Risk band is disclosed", 0, << >>) >>
                        ELSE << >>
              IN  Accepted(f1 \o f2 \o f3)

\* validatePolicy of the credit-score verifier
validatePolicyCredit(p) ==
    IF ~startsWith(p.version, << "0", "." >>)
    THEN Rejected("Unsupported policy version")
    ELSE LET k == findOutput(p.outputs, "approved") IN
         IF k = 0
         THEN Rejected("Policy missing required 'approved' output")
         ELSE LET approvedOutput == p.outputs[k]
                  f1 == << Line("Version", 0, << >>),
                           Line("Subject type", 0, << >>),
                           Line("Has output", 0, << approvedOutput.name >>) >>
                  f2 == IF approvedOutput.derive.kind = "PASS_FAIL"
                        THEN << Line("Uses PASS_FAIL derivation", 0, << >>) >>
                        ELSE << >>
                  f3 == IF isDisclosed(p, "approved")
                        THEN << Line("Approval status is disclosed", 0, << >>) >>
                        ELSE << >>
              IN  Accepted(f1 \o f2 \o f3)

\* validatePolicy returning false on a rejection instead of ending the run
ValidateStepContinue(res) ==
    /\ out' = out \o << Line("Found policy", 0, << >>), Line("Step", 3, << >>) >>
                  \o (IF res.ok
                      THEN << Line("Policy validation passed", 0, << >>) >> \o res.findings
                      ELSE << Line(res.err, 0, << >>) >>)
    /\ policyValidated' = res.ok
    /\ pc' = "freshness"
    /\ exitCode' = exitCode

\* The console trace of one validatePolicy call and where the run goes next
ValidateStep(res) ==
    /\ out' = out \o << Line("Found policy", 0, << >>), Line("Step", 3, << >>) >>
                  \o (IF res.ok
                      THEN << Line("Policy validation passed", 0, << >>) >> \o res.findings
                      ELSE << Line(res.err, 0, << >>) >>)
    /\ policyValidated' = res.ok
    /\ pc' = IF res.ok THEN "freshness" ELSE "exit"
    /\ exitCode' = IF res.ok THEN exitCode ELSE 1

ValidatePolicyRisk ==
    /\ pc = "validate"
    /\ domain = "vehicle"
    /\ ValidateStep(validatePolicyRisk(policy))
    /\ UNCHANGED << domain, policy, now, completedAt, fallbackDate,
                    ageDays, ttlDays, claims, report >>
    /\ UNCHANGED orchVars

ValidatePolicyCredit ==
    /\ pc = "validate"
    /\ domain = "credit"
    /\ ValidateStep(validatePolicyCredit(policy))
    /\ UNCHANGED << domain, policy, now, completedAt, fallbackDate,
                    ageDays, ttlDays, claims, report >>
    /\ UNCHANGED orchVars

----------------------------------------------------------------------------
(* Inputs of the policy validator *)

VersionChars == { "0", "1", "." }
Versions == SeqsUpTo(VersionChars, MaxVerLen)

SubjectTypes == { "vehicle", "person", Undefined }

Band(label) == [label |-> label]
Output(name, type, kind, hasBands, bands) ==
    [name |-> name, type |-> type,
     derive |-> [kind |-> kind, hasBands |-> hasBands, bands |-> bands]]

ValidatorOutputs ==
    { Output("riskBand", "enum", "BAND", TRUE,
             << Band("HIGH"), Band("MEDIUM"), Band("LOW") >>),
      Output("riskBand", "enum", "BAND", TRUE, << >>),
      Output("riskBand", "enum", "BAND", FALSE, << >>),
      Output("riskBand", "boolean", "PASS_FAIL", FALSE, << >>),
      Output("approved", "boolean", "PASS_FAIL", FALSE, << >>),
      Output("approved", "enum", "BAND", TRUE, << Band("A"), Band("B") >>),
      Output("score", "enum", "BAND", TRUE, << Band("X") >>) }

Disclosures ==
    { [defined |-> FALSE, exposeDefined |-> FALSE, exposeClaims |-> {}],
      [defined |-> TRUE, exposeDefined |-> FALSE, exposeClaims |-> {}] }
    \cup { [defined |-> TRUE, exposeDefined |-> TRUE, exposeClaims |-> s] :
             s \in SUBSET { "riskBand", "approved" } }

NoTtl == [ttlDefined |-> FALSE, ttl |-> << >>]

\* The id the circuit / shared proof names (circuit.policyId)
PolicyId == "bind.policy"

Policy(version, subjectType, outputs, disclosure, validity) ==
    [isNull |-> FALSE, id |-> PolicyId, version |-> version, subject |-> [type |-> subjectType],
     outputs |-> outputs, disclosure |-> disclosure, validity |-> validity]

\* Every version with a few outputs lists, and every outputs list with an
\* accepted and an unsupported version
SampleOutputs ==
    { << >>,
      << Output("score", "enum", "BAND", TRUE, << Band("X") >>) >>,
      << Output("riskBand", "enum", "BAND", TRUE,
                << Band("HIGH"), Band("MEDIUM"), Band("LOW") >>),
         Output("approved", "boolean", "PASS_FAIL", FALSE, << >>) >> }

SampleVersions == { << "0", ".", "1" >>, << "1", ".", "0" >> }

ValidatorPolicies ==
    { Policy(v, s, o, d, NoTtl) :
        v \in Versions, s \in SubjectTypes, o \in SampleOutputs, d \in Disclosures }
    \cup
    { Policy(v, s, o, d, NoTtl) :
        v \in SampleVersions, s \in SubjectTypes,
        o \in SeqsUpTo(ValidatorOutputs, MaxOutputs), d \in Disclosures }

Domains == { "vehicle", "credit" }

NoTime == [present |-> FALSE, t |-> 0]

NoProof == [fetched |-> FALSE, status |-> "none", revoked |-> FALSE,
            expiresAt |-> NoTime, hasPolicyId |-> FALSE, embedded |-> FALSE,
            policySpec |-> NoPolicy]
NoExt == [getPolicy |-> "none", listPolicies |-> "none", issue |-> "none",
          verify |-> "none", error |-> ""]
NoEnv == [PROVE_JOB_ID |-> FALSE, SHARED_PROOF_ID |-> FALSE,
          BIND_API_KEY |-> FALSE, BIND_VERIFIER_API_KEY |-> FALSE]
NoScorer == [ran |-> FALSE]

\* A helper exercised on its own: no orchestration around it
OrchIdle ==
    /\ mode = "none"
    /\ env = NoEnv
    /\ calls = << >>
    /\ step = 0
    /\ proof = NoProof
    /\ ext = NoExt
    /\ scorer = NoScorer

InitValidate ==
    /\ domain \in Domains
    /\ pc = "validate"
    /\ exitCode = -1
    /\ policy \in ValidatorPolicies
    /\ policyValidated = FALSE
    /\ out = << >>
    /\ now = 0
    /\ completedAt = NoTime
    /\ fallbackDate = 0
    /\ ageDays = 0
    /\ ttlDays = 0
    /\ claims = << >>
    /\ report = NoReport
    /\ OrchIdle

NextValidate == ValidatePolicyRisk \/ ValidatePolicyCredit

SpecValidate == InitValidate /\ [][NextValidate]_vars

----------------------------------------------------------------------------
(* checkFreshness *)

\* 24 * 60 * 60 * 1000 ms, with the hour (3 600 000 ms) as the unit of time
HoursPerDay == 24

DefaultTtlRisk == 90
DefaultTtlCredit == 30
DefaultTtlStringRisk == << "P", "9", "0", "D" >>
DefaultTtlStringCredit == << "P", "3", "0", "D" >>

Digits == << "0", "1", "2", "3", "4", "5", "6", "7", "8", "9" >>

\* \d (no unicode flag): an ASCII digit
isDigit(c) == \E i \in 1..10 : Digits[i] = c
digitValue(c) == (CHOOSE i \in 1..10 : Digits[i] = c) - 1
allDigits(s) == \A i \in 1..Len(s) : isDigit(s[i])

\* A failed match is null; a successful one carries a non-empty group 1
NoMatch == << >>

\* /^P(\d+)D$/ without the i flag
matchIsoCaseSensitive(s) ==
    IF /\ Len(s) >= 3
       /\ s[1] = "P"
       /\ s[Len(s)] = "D"
       /\ allDigits(SubSeq(s, 2, Len(s) - 1))
    THEN SubSeq(s, 2, Len(s) - 1)
    ELSE NoMatch

\* ttlString.match(/^P(\d+)D$/i): group 1 or null
matchIso(s) ==
    IF /\ Len(s) >= 3
       /\ s[1] \in { "P", "p" }
       /\ s[Len(s)] \in { "D", "d" }
       /\ allDigits(SubSeq(s, 2, Len(s) - 1))
    THEN SubSeq(s, 2, Len(s) - 1)
    ELSE NoMatch

\* ttlString.match(/^(\d+)d$/i): group 1 or null
matchSimple(s) ==
    IF /\ Len(s) >= 2
       /\ s[Len(s)] \in { "D", "d" }
       /\ allDigits(SubSeq(s, 1, Len(s) - 1))
    THEN SubSeq(s, 1, Len(s) - 1)
    ELSE NoMatch

\* parseInt(digits, 10) on a string of decimal digits
RECURSIVE parseInt10(_)
parseInt10(ds) ==
    IF Len(ds) = 0 THEN 0
    ELSE 10 * parseInt10(SubSeq(ds, 1, Len(ds) - 1)) + digitValue(ds[Len(ds)])

\* policy?.validity?.ttl ?? dflt
ttlStringOf(p, dflt) ==
    IF p.isNull THEN dflt
    ELSE IF p.validity.ttlDefined THEN p.validity.ttl ELSE dflt

\* isoMatch ? parseInt(isoMatch[1]) : simpleMatch ? parseInt(simpleMatch[1]) : dflt
parseTtlDays(ttlString, dflt) ==
    IF matchIso(ttlString) # NoMatch THEN parseInt10(matchIso(ttlString))
    ELSE IF matchSimple(ttlString) # NoMatch THEN parseInt10(matchSimple(ttlString))
    ELSE dflt

\* new Date(fallbackDate) whether or not completedAt is present
provedAtOfFallback(cAt, fallback) == fallback

\* completedAt ? new Date(completedAt) : new Date(fallbackDate)
provedAtOf(cAt, fallback) == IF cAt.present THEN cAt.t ELSE fallback

\* Math.trunc(ageMs / (24 * 60 * 60 * 1000))
ageDaysOfTruncated(t, provedAt) ==
    IF t >= provedAt THEN (t - provedAt) \div HoursPerDay
    ELSE 0 - ((provedAt - t) \div HoursPerDay)

\* Math.floor(ageMs / (24 * 60 * 60 * 1000))
ageDaysOf(t, provedAt) == (t - provedAt) \div HoursPerDay

\* ageDays < ttlDays
isFreshStrict(age, ttl) == age < ttl

\* ageDays <= ttlDays
isFresh(age, ttl) == age <= ttl

\* The freshness check numbered 4 whether or not a policy was validated
freshnessStepAlwaysFour == IF policyValidated THEN 4 ELSE 4

\* const freshnessStep = policyValidated ? 4 : 3
freshnessStep == IF policyValidated THEN 4 ELSE 3

\* The trace and the effect of one checkFreshness call
FreshnessStep(age, ttl, expiredLines) ==
    /\ ageDays' = age
    /\ ttlDays' = ttl
    /\ out' = out \o << Line("Step", freshnessStep, << >>),
                        Line("Proof age", age, << >>),
                        Line("Policy TTL", ttl,
                             IF policy.isNull THEN << "(default)" >> ELSE << >>) >>
                  \o (IF isFresh(age, ttl)
                      THEN << Line("Status: Fresh", 0, << >>) >>
                      ELSE expiredLines)
    /\ pc' = IF isFresh(age, ttl) THEN "issue" ELSE "exit"
    /\ exitCode' = IF isFresh(age, ttl) THEN exitCode ELSE 1

\* checkFreshness of the vehicle-risk verifier
CheckFreshnessRisk ==
    /\ pc = "freshness"
    /\ domain = "vehicle"
    /\ FreshnessStep(ageDaysOf(now, provedAtOf(completedAt, fallbackDate)),
                     parseTtlDays(ttlStringOf(policy, DefaultTtlStringRisk),
                                  DefaultTtlRisk),
                     << Line("Status: EXPIRED", 0, << >>),
                        Line("request a fresh proof", 0, << >>) >>)
    /\ UNCHANGED << domain, policy, policyValidated, now, completedAt,
                    fallbackDate, claims, report >>
    /\ UNCHANGED orchVars

\* checkFreshness of the credit-score verifier
CheckFreshnessCredit ==
    /\ pc = "freshness"
    /\ domain = "credit"
    /\ FreshnessStep(ageDaysOf(now, provedAtOf(completedAt, fallbackDate)),
                     parseTtlDays(ttlStringOf(policy, DefaultTtlStringCredit),
                                  DefaultTtlCredit),
                     << Line("Status: EXPIRED", 0, << >>) >>)
    /\ UNCHANGED << domain, policy, policyValidated, now, completedAt,
                    fallbackDate, claims, report >>
    /\ UNCHANGED orchVars

----------------------------------------------------------------------------
(* Inputs of the freshness check *)

TtlChars == { "P", "p", "D", "d", "0", "9", "x" }
TtlStrings == SeqsUpTo(TtlChars, MaxTtlLen)
Ttl(s) == [ttlDefined |-> TRUE, ttl |-> s]

\* A policy both validators accept, with the given validity
AcceptablePolicy(validity) ==
    Policy(<< "0", ".", "1" >>, "vehicle",
           << Output("riskBand", "enum", "BAND", TRUE,
                     << Band("HIGH"), Band("MEDIUM"), Band("LOW") >>),
              Output("approved", "boolean", "PASS_FAIL", FALSE, << >>) >>,
           [defined |-> TRUE, exposeDefined |-> TRUE,
            exposeClaims |-> { "riskBand", "approved" }],
           validity)

Now == 200 * HoursPerDay
At(t) == [present |-> TRUE, t |-> t]

InitFreshness(policies, completions, fallbacks) ==
    /\ domain \in Domains
    /\ pc = "freshness"
    /\ exitCode = -1
    /\ policy \in policies
    /\ policyValidated = ~policy.isNull
    /\ out = << >>
    /\ now = Now
    /\ completedAt \in completions
    /\ fallbackDate \in fallbacks
    /\ ageDays = 0
    /\ ttlDays = 0
    /\ claims = << >>
    /\ report = NoReport
    /\ OrchIdle

NextFreshness == CheckFreshnessRisk \/ CheckFreshnessCredit

\* Every TTL string up to MaxTtlLen, a policy without ttl, and no policy
InitTtl ==
    InitFreshness({ NoPolicy, AcceptablePolicy(NoTtl) }
                    \cup { AcceptablePolicy(Ttl(s)) : s \in TtlStrings },
                  { At(Now), At(Now - 100 * HoursPerDay) },
                  { Now })

SpecTtl == InitTtl /\ [][NextFreshness]_vars

\* Proof ages around the TTLs 0, 9, 30 and 90 days, with and without completedAt
ElapsedHours ==
    { -1, 0, HoursPerDay - 1 }
    \cup { d * HoursPerDay + h : d \in { 1, 9, 10, 30, 31, 90, 91 },
                                 h \in { 0, HoursPerDay - 1 } }

InitFresh ==
    InitFreshness({ NoPolicy, AcceptablePolicy(NoTtl),
                    AcceptablePolicy(Ttl(<< "P", "9", "D" >>)),
                    AcceptablePolicy(Ttl(<< "9", "0", "d" >>)),
                    AcceptablePolicy(Ttl(<< "p", "0", "d" >>)),
                    AcceptablePolicy(Ttl(<< "P", "3", "0", "D" >>)),
                    AcceptablePolicy(Ttl(<< "9", "0" >>)),
                    AcceptablePolicy(Ttl(<< >>)) },
                  { NoTime } \cup { At(Now - e) : e \in ElapsedHours },
                  { Now - e : e \in { 0, 9 * HoursPerDay, 31 * HoursPerDay,
                                      91 * HoursPerDay } })

SpecFresh == InitFresh /\ [][NextFreshness]_vars

----------------------------------------------------------------------------
(* Claims of a verified credential and their interpretation *)

\* JavaScript values of a claims mapping (decoded JSON) and undefined
Num(n) == [t |-> "number", n |-> n, s |-> << >>, b |-> FALSE]
Str(s) == [t |-> "string", n |-> 0, s |-> s, b |-> FALSE]
Bool(b) == [t |-> "boolean", n |-> 0, s |-> << >>, b |-> b]
JsNull == [t |-> "null", n |-> 0, s |-> << >>, b |-> FALSE]
JsUndefined == [t |-> "undefined", n |-> 0, s |-> << >>, b |-> FALSE]

\* A JavaScript number used as an array index: an integer or NaN
Idx(n) == [nan |-> FALSE, n |-> n]
NaN == [nan |-> TRUE, n |-> 0]

\* claims[key]
claimOf(c, key) == IF key \in DOMAIN c THEN c[key] ELSE JsUndefined

\* a || b: every falsy a (also 0, "" and false) gives b
nullishOr(a, b) ==
    IF \/ a.t \in { "undefined", "null" }
       \/ a.t = "number" /\ a.n = 0
       \/ a.t = "string" /\ a.s = << >>
       \/ a.t = "boolean" /\ ~a.b
    THEN b ELSE a

\* a ?? b
nullish(a, b) == IF a.t \in { "undefined", "null" } THEN b ELSE a

\* Number(string) for strings of digits and letters: "" is 0, a decimal
\* numeral is its value, anything else is NaN
toNumber(str) == IF allDigits(str) THEN Idx(parseInt10(str)) ELSE NaN

\* typeof claim === "number" ? claim : typeof claim === "string" ? Number(claim) : 0
bandIndexOf(claim) ==
    IF claim.t = "number" THEN Idx(claim.n)
    ELSE IF claim.t = "string" THEN toNumber(claim.s)
    ELSE Idx(0)

\* const RISK_BANDS = ["HIGH", "MEDIUM", "LOW"]
RISK_BANDS == << "HIGH", "MEDIUM", "LOW" >>

\* A label taken from a table, and the template string `Band ${bandIndex}`
TableLabel(text) == [synth |-> FALSE, text |-> text, index |-> Idx(0)]
SynthLabel(i) == [synth |-> TRUE, text |-> "Band", index |-> i]

\* array[bandIndex] is defined (JavaScript arrays are 0-based)
inRange(i, n) == ~i.nan /\ 0 <= i.n /\ i.n < n

\* policy?.outputs?.[0]?.derive?.bands: [defined, items]
firstOutputBands(p) ==
    IF p.isNull \/ Len(p.outputs) = 0 \/ ~p.outputs[1].derive.hasBands
    THEN [defined |-> FALSE, items |-> << >>]
    ELSE [defined |-> TRUE, items |-> p.outputs[1].derive.bands]

\* resolveBandLabel(claims, policy)
resolveBandLabel(c, p) ==
    LET riskBandClaim == nullish(claimOf(c, "riskBand"), claimOf(c, "outputValue"))
        bandIndex == bandIndexOf(riskBandClaim)
        bands == firstOutputBands(p)
    IN  IF bands.defined /\ inRange(bandIndex, Len(bands.items))
        THEN TableLabel(bands.items[bandIndex.n + 1].label)
        ELSE IF inRange(bandIndex, Len(RISK_BANDS))
        THEN TableLabel(RISK_BANDS[bandIndex.n + 1])
        ELSE SynthLabel(bandIndex)

\* The underwriting guidance printed for a band label
recommendationOf(label) ==
    IF label = TableLabel("LOW") THEN "APPROVE"
    ELSE IF label = TableLabel("MEDIUM") THEN "REVIEW"
    ELSE IF label = TableLabel("HIGH") THEN "CAUTION"
    ELSE "none"

DecisionKeysRisk == { "riskBand", "outputValue" }
DecisionKeysCredit == { "approved", "outputValue" }

\* displayResults throwing inside the caller's try when the credential
\* carries neither riskBand nor outputValue
DisplayResultsRiskThrowing ==
    /\ pc = "report"
    /\ domain = "vehicle"
    /\ IF DOMAIN claims \cap DecisionKeysRisk = {}
       THEN /\ report' = report
            /\ out' = out \o << Line("Credential verification error", 0, << >>) >>
            /\ pc' = "exit"
            /\ exitCode' = 1
       ELSE /\ report' = [printed |-> TRUE,
                          annotations |-> [k \in DOMAIN claims \cap DecisionKeysRisk |->
                                              resolveBandLabel(claims, policy)],
                          recommendation |->
                              recommendationOf(resolveBandLabel(claims, policy)),
                          summary |-> resolveBandLabel(claims, policy)]
            /\ out' = out \o << Line("Credential verification successful", 0, << >>),
                                Line("Verification Complete", 0, << >>) >>
            /\ pc' = "done"
            /\ exitCode' = 0
    /\ UNCHANGED << domain, policy, policyValidated, now, completedAt,
                    fallbackDate, ageDays, ttlDays, claims >>
    /\ UNCHANGED orchVars

\* displayResults of the vehicle-risk verifier
DisplayResultsRisk ==
    /\ pc = "report"
    /\ domain = "vehicle"
    /\ report' = [printed |-> TRUE,
                  annotations |-> [k \in DOMAIN claims \cap DecisionKeysRisk |->
                                      resolveBandLabel(claims, policy)],
                  recommendation |-> recommendationOf(resolveBandLabel(claims, policy)),
                  summary |-> resolveBandLabel(claims, policy)]
    /\ out' = out \o << Line("Credential verification successful", 0, << >>),
                        Line("Verification Complete", 0, << >>) >>
    /\ pc' = "done"
    /\ exitCode' = 0
    /\ UNCHANGED << domain, policy, policyValidated, now, completedAt,
                    fallbackDate, ageDays, ttlDays, claims >>
    /\ UNCHANGED orchVars

\* value === 1 || value === true || value === "1"
isApproved(value) ==
    \/ value.t = "number" /\ value.n = 1
    \/ value.t = "boolean" /\ value.b
    \/ value.t = "string" /\ value.s = << "1" >>

\* displayResults of the credit-score verifier
DisplayResultsCredit ==
    /\ pc = "report"
    /\ domain = "credit"
    /\ report' = [printed |-> TRUE,
                  annotations |-> [k \in DOMAIN claims \cap DecisionKeysCredit |->
                                      IF isApproved(claims[k]) THEN "APPROVED"
                                      ELSE "NOT APPROVED"]]
    /\ out' = out \o << Line("Credential verification successful", 0, << >>),
                        Line("Verification Complete", 0, << >>) >>
    /\ pc' = "done"
    /\ exitCode' = 0
    /\ UNCHANGED << domain, policy, policyValidated, now, completedAt,
                    fallbackDate, ageDays, ttlDays, claims >>
    /\ UNCHANGED orchVars

----------------------------------------------------------------------------
(* Inputs of the report *)

ClaimChars == { "0", "1", "4", "a" }
ClaimStrings == SeqsUpTo(ClaimChars, MaxClaimLen)

\* A claims mapping with the given values; an undefined value means no such key
ClaimsOf(canonicalKey, canonical, generic, issuer) ==
    LET all == [k \in { canonicalKey, "outputValue", "issuer" } |->
                   IF k = canonicalKey THEN canonical
                   ELSE IF k = "outputValue" THEN generic ELSE issuer]
    IN  [k \in { j \in DOMAIN all : all[j] # JsUndefined } |-> all[k]]

RiskBandValues ==
    { JsUndefined, JsNull, Bool(TRUE), Num(-1) }
    \cup { Num(n) : n \in 0..MaxIndex }
    \cup { Str(str) : str \in ClaimStrings }

RiskClaims ==
    { ClaimsOf("riskBand", r, o, Str(<< "a" >>)) :
        r \in RiskBandValues,
        o \in { JsUndefined, Num(0), Num(2), Str(<< "1" >>) } }

\* Band tables of the policy: the first n of six labels
PolicyLabels == << "SEVERE", "ELEVATED", "MODERATE", "GUARDED", "MINIMAL", "NONE" >>
OtherLabels == << "A", "B", "C", "D", "E", "F" >>
BandTable(labels, n) == [i \in 1..n |-> Band(labels[i])]

RiskOutputs ==
    { Output("riskBand", "enum", "BAND", FALSE, << >>) }
    \cup { Output("riskBand", "enum", "BAND", TRUE, BandTable(PolicyLabels, n)) :
             n \in 0..MaxBands }

ScoreOutputs ==
    { Output("score", "enum", "BAND", TRUE, BandTable(OtherLabels, MaxBands + 1)),
      Output("score", "number", "SCORE", FALSE, << >>) }

\* Policies the vehicle-risk validatePolicy accepts, riskBand first or second
BandPolicies ==
    { Policy(<< "0", ".", "1" >>, "vehicle", o,
             [defined |-> TRUE, exposeDefined |-> TRUE, exposeClaims |-> { "riskBand" }],
             NoTtl) :
        o \in { << r >> : r \in RiskOutputs }
              \cup { << r, x >> : r \in RiskOutputs, x \in ScoreOutputs }
              \cup { << x, r >> : r \in RiskOutputs, x \in ScoreOutputs } }

ApprovedValues ==
    { JsUndefined, JsNull, Bool(TRUE), Bool(FALSE), Num(0), Num(1), Num(2) }
    \cup { Str(str) : str \in ClaimStrings }

CreditClaims ==
    { ClaimsOf("approved", a, o, i) :
        a \in ApprovedValues,
        o \in { JsUndefined, Num(0), Num(1), Str(<< "1" >>) },
        i \in { JsUndefined, Str(<< "a" >>) } }

InitReport ==
    /\ domain \in Domains
    /\ IF domain = "vehicle"
       THEN policy \in { NoPolicy } \cup BandPolicies /\ claims \in RiskClaims
       ELSE policy \in { NoPolicy, AcceptablePolicy(NoTtl) } /\ claims \in CreditClaims
    /\ pc = "report"
    /\ exitCode = -1
    /\ policyValidated = ~policy.isNull
    /\ out = << >>
    /\ now = Now
    /\ completedAt = At(Now)
    /\ fallbackDate = Now
    /\ ageDays = 0
    /\ ttlDays = IF domain = "vehicle" THEN DefaultTtlRisk ELSE DefaultTtlCredit
    /\ report = NoReport
    /\ OrchIdle

NextReport == DisplayResultsRisk \/ DisplayResultsCredit

SpecReport == InitReport /\ [][NextReport]_vars

----------------------------------------------------------------------------
(* main, verifyDirect and verifySharedProof.  The two verifier scripts carry *)
(* the same orchestration code; each action is one BindClient call together *)
(* with the code that runs on its result up to the next call.               *)

\* console.error + process.exit(1)
Exit1(lines) ==
    /\ out' = out \o lines
    /\ pc' = "exit"
    /\ exitCode' = 1

\* A rejected await nobody catches: main().catch(console.error) prints the
\* error and the process ends with the default exit code 0
Uncaught(lines, msg) ==
    /\ out' = out \o lines \o << Line("uncaught error", 0, << msg >>) >>
    /\ pc' = "exit"
    /\ exitCode' = 0

\* The run continues at the next call
Goto(lines, next) ==
    /\ out' = out \o lines
    /\ pc' = next
    /\ exitCode' = exitCode

StepLine(n) == Line("Step", n, << >>)

\* main starting the direct verification without looking at BIND_API_KEY
MainKeyUnchecked ==
    /\ pc = "main"
    /\ IF env.PROVE_JOB_ID
       THEN Goto(<< >>, "getProveJob") /\ mode' = "direct"
       ELSE IF env.SHARED_PROOF_ID
       THEN IF ~env.BIND_VERIFIER_API_KEY
            THEN Exit1(<< Line("BIND_VERIFIER_API_KEY environment variable is required",
                               0, << >>) >>)
                 /\ mode' = mode
            ELSE Goto(<< >>, "getSharedProof") /\ mode' = "shared"
       ELSE Exit1(<< Line("No proof specified", 0, << >>) >>) /\ mode' = mode
    /\ UNCHANGED << domain, policy, policyValidated, now, completedAt, fallbackDate,
                    ageDays, ttlDays, claims, report, env, calls, step, proof,
                    ext, scorer >>

\* main: choose the mode from the environment
Main ==
    /\ pc = "main"
    /\ IF env.PROVE_JOB_ID
       THEN IF ~env.BIND_API_KEY
            THEN Exit1(<< Line("BIND_API_KEY environment variable is required", 0, << >>) >>)
                 /\ mode' = mode
            ELSE Goto(<< >>, "getProveJob") /\ mode' = "direct"
       ELSE IF env.SHARED_PROOF_ID
       THEN IF ~env.BIND_VERIFIER_API_KEY
            THEN Exit1(<< Line("BIND_VERIFIER_API_KEY environment variable is required",
                               0, << >>) >>)
                 /\ mode' = mode
            ELSE Goto(<< >>, "getSharedProof") /\ mode' = "shared"
       ELSE Exit1(<< Line("No proof specified", 0, << >>) >>) /\ mode' = mode
    /\ UNCHANGED << domain, policy, policyValidated, now, completedAt, fallbackDate,
                    ageDays, ttlDays, claims, report, env, calls, step, proof,
                    ext, scorer >>

\* Texts of the errors the external service answers with
ErrorTexts == { "ECONNRESET", "quota exceeded" }

JobStatuses == { "queued", "running", "completed", "failed" }

\* job.status !== "failed" instead of === "completed"
jobReadyNotFailed(status) == status # "failed"

\* !(job.status !== "completed")
jobReady(status) == status = "completed"

\* Prove jobs getProveJob may return
Jobs ==
    { [status |-> st, completedAt |-> c, createdAt |-> f] :
        st \in JobStatuses,
        c \in { NoTime, At(Now - HoursPerDay), At(Now - 100 * HoursPerDay) },
        f \in { Now - 2 * HoursPerDay, Now - 100 * HoursPerDay } }

\* verifyDirect, step 1: getProveJob and the status precondition
GetProveJob ==
    /\ pc = "getProveJob"
    /\ calls' = Append(calls, "getProveJob")
    /\ \/ /\ \E msg \in ErrorTexts : Uncaught(<< StepLine(1) >>, msg)
          /\ UNCHANGED << proof, completedAt, fallbackDate >>
       \/ \E job \in Jobs :
             /\ proof' = [proof EXCEPT !.fetched = TRUE, !.status = job.status]
             /\ completedAt' = job.completedAt
             /\ fallbackDate' = job.createdAt
             /\ IF jobReady(job.status)
                THEN Goto(<< StepLine(1) >>, "getCircuit")
                ELSE Exit1(<< StepLine(1),
                              Line("Job status is", 0, << job.status >>) >>)
    /\ UNCHANGED << domain, policy, policyValidated, now, ageDays, ttlDays,
                    claims, report, mode, env, step, ext, scorer >>

\* verifyDirect, step 2: getCircuit and circuit.policyId
GetCircuit ==
    /\ pc = "getCircuit"
    /\ calls' = Append(calls, "getCircuit")
    /\ \/ /\ \E msg \in ErrorTexts : Uncaught(<< StepLine(2) >>, msg)
          /\ proof' = proof
       \/ \E hasId \in BOOLEAN :
             /\ proof' = [proof EXCEPT !.hasPolicyId = hasId]
             /\ IF hasId
                THEN Goto(<< StepLine(2), Line("Policy ID", 0, << >>) >>, "getPolicy")
                ELSE Goto(<< StepLine(2),
                             Line("No policy associated with this circuit", 0, << >>) >>,
                          "freshness")
    /\ UNCHANGED << domain, policy, policyValidated, now, completedAt, fallbackDate,
                    ageDays, ttlDays, claims, report, mode, env, step, ext, scorer >>

\* allPolicies[0]: the first listed policy whatever its id
findPolicyFirst(listing, id) == IF Len(listing) = 0 THEN 0 ELSE 1

\* allPolicies.find((p) => p.id === policyId): index of the first match, 0 if none
findPolicy(listing, id) ==
    LET hits == { i \in 1..Len(listing) : listing[i].id = id }
    IN  IF hits = {} THEN 0 ELSE CHOOSE i \in hits : \A j \in hits : i <= j

SkipLines == << Line("Policy not found", 0, << >>),
                Line("Skipping policy validation", 0, << >>) >>

\* Policies the service may hold under the policy id
OrchPolicies ==
    { AcceptablePolicy(NoTtl),
      AcceptablePolicy(Ttl(<< "P", "1", "D" >>)),
      Policy(<< "1", ".", "0" >>, "vehicle",
             << Output("riskBand", "enum", "BAND", TRUE,
                       << Band("HIGH"), Band("MEDIUM"), Band("LOW") >>),
                Output("approved", "boolean", "PASS_FAIL", FALSE, << >>) >>,
             [defined |-> TRUE, exposeDefined |-> TRUE,
              exposeClaims |-> { "riskBand", "approved" }], NoTtl),
      Policy(<< "0", ".", "1" >>, "vehicle",
             << Output("score", "enum", "BAND", TRUE, BandTable(OtherLabels, 4)),
                Output("riskBand", "enum", "BAND", TRUE, BandTable(PolicyLabels, 3)),
                Output("approved", "boolean", "PASS_FAIL", FALSE, << >>) >>,
             [defined |-> TRUE, exposeDefined |-> TRUE,
              exposeClaims |-> { "riskBand", "approved" }], NoTtl),
      Policy(<< "0", ".", "1" >>, "vehicle",
             << Output("score", "enum", "BAND", TRUE, BandTable(OtherLabels, 4)) >>,
             [defined |-> FALSE, exposeDefined |-> FALSE, exposeClaims |-> {}], NoTtl) }

OtherPolicy == [AcceptablePolicy(NoTtl) EXCEPT !.id = "other.policy"]

\* Answers of listPolicies
Listings ==
    { << >>, << OtherPolicy >> } \cup { << OtherPolicy, p >> : p \in OrchPolicies }

\* verifyDirect handing a fetched policy to the freshness check without
\* calling validatePolicy
GetPolicyDirectUnvalidated ==
    /\ pc = "getPolicy"
    /\ mode = "direct"
    /\ calls' = Append(calls, "getPolicy")
    /\ \/ /\ ext' = [ext EXCEPT !.getPolicy = "threw"]
          /\ policy' = policy
          /\ Goto(<< >>, "listPolicies")
       \/ /\ ext' = [ext EXCEPT !.getPolicy = "null"]
          /\ policy' = policy
          /\ Goto(<< >>, "listPolicies")
       \/ \E p \in OrchPolicies :
             /\ ext' = [ext EXCEPT !.getPolicy = "found"]
             /\ policy' = p
             /\ Goto(<< >>, "freshness")
    /\ UNCHANGED << domain, policyValidated, now, completedAt, fallbackDate, ageDays,
                    ttlDays, claims, report, mode, env, step, proof, scorer >>

\* verifyDirect: getPolicy inside try / catch
GetPolicyDirect ==
    /\ pc = "getPolicy"
    /\ mode = "direct"
    /\ calls' = Append(calls, "getPolicy")
    /\ \/ /\ ext' = [ext EXCEPT !.getPolicy = "threw"]
          /\ policy' = policy
          /\ Goto(<< >>, "listPolicies")
       \/ /\ ext' = [ext EXCEPT !.getPolicy = "null"]
          /\ policy' = policy
          /\ Goto(<< >>, "listPolicies")
       \/ \E p \in OrchPolicies :
             /\ ext' = [ext EXCEPT !.getPolicy = "found"]
             /\ policy' = p
             /\ Goto(<< >>, "validate")
    /\ UNCHANGED << domain, policyValidated, now, completedAt, fallbackDate, ageDays,
                    ttlDays, claims, report, mode, env, step, proof, scorer >>

\* verifyDirect: listPolicies inside try / catch, then the scan by id
ListPoliciesDirect ==
    /\ pc = "listPolicies"
    /\ mode = "direct"
    /\ calls' = Append(calls, "listPolicies")
    /\ \/ /\ ext' = [ext EXCEPT !.listPolicies = "threw"]
          /\ policy' = policy
          /\ Goto(SkipLines, "freshness")
       \/ \E listing \in Listings :
             IF findPolicy(listing, PolicyId) = 0
             THEN /\ ext' = [ext EXCEPT !.listPolicies = "nomatch"]
                  /\ policy' = policy
                  /\ Goto(SkipLines, "freshness")
             ELSE /\ ext' = [ext EXCEPT !.listPolicies = "found"]
                  /\ policy' = listing[findPolicy(listing, PolicyId)]
                  /\ Goto(<< >>, "validate")
    /\ UNCHANGED << domain, policyValidated, now, completedAt, fallbackDate, ageDays,
                    ttlDays, claims, report, mode, env, step, proof, scorer >>

\* new Date(sharedProof.expiresAt) <= new Date()
shareExpiredInclusive(sp) == sp.expiresAt.present /\ sp.expiresAt.t <= now

\* sharedProof.expiresAt && new Date(sharedProof.expiresAt) < new Date()
shareExpired(sp) == sp.expiresAt.present /\ sp.expiresAt.t < now

\* The preconditions of a shared proof without the revocation check
sharedPreconditionNoRevoke(sp) ==
    IF shareExpired(sp)
    THEN "This shared proof has expired"
    ELSE IF ~sp.hasPolicyId THEN "This proof is not associated with a policy"
    ELSE ""

\* The preconditions of a shared proof: the error printed, "" if none
sharedPrecondition(sp) ==
    IF sp.revoked THEN "This shared proof has been revoked"
    ELSE IF shareExpired(sp)
    THEN "This shared proof has expired"
    ELSE IF ~sp.hasPolicyId THEN "This proof is not associated with a policy"
    ELSE ""

\* Shared proofs getSharedProof may return
SharedProofs ==
    { [revoked |-> r, expiresAt |-> e, hasPolicyId |-> h, policySpec |-> ps,
       completedAt |-> c, createdAt |-> f] :
        r \in BOOLEAN,
        e \in { NoTime, At(Now - 1), At(Now), At(Now + 1) },
        h \in BOOLEAN,
        ps \in { NoPolicy } \cup OrchPolicies,
        c \in { NoTime, At(Now - HoursPerDay), At(Now - 100 * HoursPerDay) },
        f \in { Now - 2 * HoursPerDay, Now - 100 * HoursPerDay } }

\* The embedded policySpec never used
embeddedPolicyIgnored(sp) == NoPolicy

\* sharedProof.policySpec ?? null
embeddedPolicy(sp) == sp.policySpec

\* verifySharedProof, step 1 and the start of step 2: getSharedProof, the
\* preconditions and the embedded policySpec
GetSharedProof ==
    /\ pc = "getSharedProof"
    /\ calls' = Append(calls, "getSharedProof")
    /\ \/ /\ \E msg \in ErrorTexts : Uncaught(<< StepLine(1) >>, msg)
          /\ UNCHANGED << proof, completedAt, fallbackDate, policy >>
       \/ \E sp \in SharedProofs :
             /\ proof' = [fetched |-> TRUE, status |-> "completed",
                          revoked |-> sp.revoked, expiresAt |-> sp.expiresAt,
                          hasPolicyId |-> sp.hasPolicyId,
                          embedded |-> ~sp.policySpec.isNull,
                          policySpec |-> sp.policySpec]
             /\ completedAt' = sp.completedAt
             /\ fallbackDate' = sp.createdAt
             /\ IF sharedPrecondition(sp) # ""
                THEN /\ Exit1(<< StepLine(1), Line(sharedPrecondition(sp), 0, << >>) >>)
                     /\ policy' = policy
                ELSE /\ policy' = embeddedPolicy(sp)
                     /\ IF embeddedPolicy(sp).isNull
                        THEN Goto(<< StepLine(1), Line("Policy ID", 0, << >>), StepLine(2),
                                     Line("Policy not included in shared proof", 0, << >>) >>,
                                  "getPolicy")
                        ELSE Goto(<< StepLine(1), Line("Policy ID", 0, << >>),
                                     StepLine(2) >>, "validate")
    /\ UNCHANGED << domain, policyValidated, now, ageDays, ttlDays, claims, report,
                    mode, env, step, ext, scorer >>

\* verifySharedProof: getPolicy, not guarded by try / catch
GetPolicyShared ==
    /\ pc = "getPolicy"
    /\ mode = "shared"
    /\ calls' = Append(calls, "getPolicy")
    /\ \/ /\ ext' = [ext EXCEPT !.getPolicy = "threw"]
          /\ policy' = policy
          /\ \E msg \in ErrorTexts : Uncaught(<< >>, msg)
       \/ /\ ext' = [ext EXCEPT !.getPolicy = "null"]
          /\ policy' = policy
          /\ Goto(<< >>, "listPolicies")
       \/ \E p \in OrchPolicies :
             /\ ext' = [ext EXCEPT !.getPolicy = "found"]
             /\ policy' = p
             /\ Goto(<< >>, "validate")
    /\ UNCHANGED << domain, policyValidated, now, completedAt, fallbackDate, ageDays,
                    ttlDays, claims, report, mode, env, step, proof, scorer >>

\* verifySharedProof: listPolicies, not guarded by try / catch, then the scan
ListPoliciesShared ==
    /\ pc = "listPolicies"
    /\ mode = "shared"
    /\ calls' = Append(calls, "listPolicies")
    /\ \/ /\ ext' = [ext EXCEPT !.listPolicies = "threw"]
          /\ policy' = policy
          /\ \E msg \in ErrorTexts : Uncaught(<< >>, msg)
       \/ \E listing \in Listings :
             IF findPolicy(listing, PolicyId) = 0
             THEN /\ ext' = [ext EXCEPT !.listPolicies = "nomatch"]
                  /\ policy' = policy
                  /\ Goto(SkipLines, "freshness")
             ELSE /\ ext' = [ext EXCEPT !.listPolicies = "found"]
                  /\ policy' = listing[findPolicy(listing, PolicyId)]
                  /\ Goto(<< >>, "validate")
    /\ UNCHANGED << domain, policyValidated, now, completedAt, fallbackDate, ageDays,
                    ttlDays, claims, report, mode, env, step, proof, scorer >>

\* The credential issued before the freshness check
IssueCredentialEarly ==
    /\ pc = "freshness"
    /\ mode # "none"
    /\ calls' = Append(calls, "issueProofCredential")
    /\ step' = freshnessStep + 1
    /\ \/ \E msg \in ErrorTexts :
             /\ ext' = [ext EXCEPT !.issue = "threw", !.error = msg]
             /\ Exit1(<< StepLine(freshnessStep + 1),
                         Line("Failed to issue credential", 0, << msg >>) >>)
       \/ /\ ext' = [ext EXCEPT !.issue = "ok"]
          /\ Goto(<< StepLine(freshnessStep + 1), Line("Credential ID", 0, << >>) >>,
                  "verify")
    /\ UNCHANGED << domain, policy, policyValidated, now, completedAt, fallbackDate,
                    ageDays, ttlDays, claims, report, mode, env, proof, scorer >>

\* issueProofCredential inside try / catch (both variants)
IssueCredential ==
    /\ pc = "issue"
    /\ mode # "none"
    /\ calls' = Append(calls, "issueProofCredential")
    /\ step' = freshnessStep + 1
    /\ \/ \E msg \in ErrorTexts :
             /\ ext' = [ext EXCEPT !.issue = "threw", !.error = msg]
             /\ Exit1(<< StepLine(freshnessStep + 1),
                         Line("Failed to issue credential", 0, << msg >>) >>)
       \/ /\ ext' = [ext EXCEPT !.issue = "ok"]
          /\ Goto(<< StepLine(freshnessStep + 1), Line("Credential ID", 0, << >>) >>,
                  "verify")
    /\ UNCHANGED << domain, policy, policyValidated, now, completedAt, fallbackDate,
                    ageDays, ttlDays, claims, report, mode, env, proof, scorer >>

\* The credential passes whatever verifyResult.valid says
credentialValidAlways(valid) == TRUE

\* !(!verifyResult.valid)
credentialValid(valid) == valid

\* Claims a verified credential may carry
OrchClaims ==
    IF domain = "vehicle"
    THEN { ClaimsOf("riskBand", r, o, Str(<< "a" >>)) :
             r \in { JsUndefined, Num(0), Num(2), Num(4), Bool(TRUE), Str(<< "x" >>) },
             o \in { JsUndefined, Str(<< "1" >>) } }
    ELSE { ClaimsOf("approved", a, o, Str(<< "a" >>)) :
             a \in { JsUndefined, Num(1), Bool(FALSE), Str(<< "1" >>) },
             o \in { JsUndefined, Num(0) } }

\* verifyCredential inside try / catch, up to the call of displayResults
VerifyCredential ==
    /\ pc = "verify"
    /\ calls' = Append(calls, "verifyCredential")
    /\ \/ \E msg \in ErrorTexts :
             /\ ext' = [ext EXCEPT !.verify = "threw", !.error = msg]
             /\ step' = step + 1
             /\ claims' = claims
             /\ Exit1(<< StepLine(step + 1),
                         Line("Credential verification error", 0, << msg >>) >>)
       \/ \E valid \in BOOLEAN, msg \in ErrorTexts, c \in OrchClaims :
             IF credentialValid(valid)
             THEN /\ ext' = [ext EXCEPT !.verify = IF valid THEN "valid" ELSE "invalid"]
                  /\ step' = step + 2
                  /\ claims' = c
                  /\ Goto(<< StepLine(step + 1), Line("Issuer", 0, << >>),
                             StepLine(step + 2) >>, "report")
             ELSE /\ ext' = [ext EXCEPT !.verify = "invalid", !.error = msg]
                  /\ step' = step + 1
                  /\ claims' = claims
                  /\ Exit1(<< StepLine(step + 1),
                              Line("Credential is invalid", 0, << msg >>) >>)
    /\ UNCHANGED << domain, policy, policyValidated, now, completedAt, fallbackDate,
                    ageDays, ttlDays, report, mode, env, proof, scorer >>

Envs == [PROVE_JOB_ID : BOOLEAN, SHARED_PROOF_ID : BOOLEAN,
         BIND_API_KEY : BOOLEAN, BIND_VERIFIER_API_KEY : BOOLEAN]

Init ==
    /\ domain \in Domains
    /\ env \in Envs
    /\ pc = "main"
    /\ exitCode = -1
    /\ policy = NoPolicy
    /\ policyValidated = FALSE
    /\ out = << >>
    /\ now = Now
    /\ completedAt = NoTime
    /\ fallbackDate = 0
    /\ ageDays = 0
    /\ ttlDays = 0
    /\ claims = << >>
    /\ report = NoReport
    /\ mode = "none"
    /\ calls = << >>
    /\ step = 0
    /\ proof = NoProof
    /\ ext = NoExt
    /\ scorer = NoScorer

Next ==
    \/ Main
    \/ GetProveJob
    \/ GetCircuit
    \/ GetPolicyDirect
    \/ ListPoliciesDirect
    \/ GetSharedProof
    \/ GetPolicyShared
    \/ ListPoliciesShared
    \/ ValidatePolicyRisk
    \/ ValidatePolicyCredit
    \/ CheckFreshnessRisk
    \/ CheckFreshnessCredit
    \/ IssueCredential
    \/ VerifyCredential
    \/ DisplayResultsRisk
    \/ DisplayResultsCredit

Spec == Init /\ [][Next]_vars

----------------------------------------------------------------------------
(* The expected-score preview of the DIMO full-flow script (index) and of   *)
(* submit-prove-job                                                         *)

BaselineScore == 50
LowMileageLimit == 3000
LowMileageBonusHalved == 25 \div 2
LowMileageBonus == 25
ModerateMileageLimit == 5000
ModerateMileageBonus == 15
ExtremeSpeed == 100
NoExtremeSpeedBonus == 10
MaxScore == 100
LowBandFloor == 71
MediumBandFloor == 41
SufficientData == 100

\* x <= n, x < n and x >= n on JavaScript numbers: false when x is NaN
numLe(x, n) == ~x.nan /\ x.n <= n
numLt(x, n) == ~x.nan /\ x.n < n

\* Math.min(a, b)
min(a, b) == IF a <= b THEN a ELSE b

\* The mileage bonuses as alternatives: if (...) += 25 else if (...) += 15
expectedScoreExclusive(mileage, speedMax) ==
    min(MaxScore,
        BaselineScore
        + (IF numLe(mileage, LowMileageLimit) THEN LowMileageBonus
           ELSE IF numLe(mileage, ModerateMileageLimit) THEN ModerateMileageBonus ELSE 0)
        + (IF numLt(speedMax, ExtremeSpeed) THEN NoExtremeSpeedBonus ELSE 0))

\* let expectedScore = 50; if (...) expectedScore += ...; Math.min(100, expectedScore)
expectedScore(mileage, speedMax) ==
    min(MaxScore,
        BaselineScore
        + (IF numLe(mileage, LowMileageLimit) THEN LowMileageBonus ELSE 0)
        + (IF numLe(mileage, ModerateMileageLimit) THEN ModerateMileageBonus ELSE 0)
        + (IF numLt(speedMax, ExtremeSpeed) THEN NoExtremeSpeedBonus ELSE 0))

\* The LOW cut point ten points lower
expectedBandLowCut(score) ==
    IF score >= LowBandFloor - 10 THEN "LOW"
    ELSE IF score >= MediumBandFloor THEN "MEDIUM"
    ELSE "HIGH"

\* if (expectedScore >= 71) "LOW" else if (expectedScore >= 41) "MEDIUM" else "HIGH"
expectedBand(score) ==
    IF score >= LowBandFloor THEN "LOW"
    ELSE IF score >= MediumBandFloor THEN "MEDIUM"
    ELSE "HIGH"

\* The breakdown of submit-prove-job with the speed bonus up to 100 mph
scoreBreakdownInclusive(mileage, speedMax) ==
    << [line |-> "Baseline", add |-> BaselineScore] >>
    \o (IF numLe(mileage, LowMileageLimit)
        THEN << [line |-> "Low mileage", add |-> LowMileageBonus] >> ELSE << >>)
    \o (IF numLe(mileage, ModerateMileageLimit)
        THEN << [line |-> "Moderate mileage", add |-> ModerateMileageBonus] >> ELSE << >>)
    \o (IF numLe(speedMax, ExtremeSpeed)
        THEN << [line |-> "No extreme speed", add |-> NoExtremeSpeedBonus] >> ELSE << >>)

\* submit-prove-job: scoreBreakdown, one entry for each addition to expectedScore
scoreBreakdown(mileage, speedMax) ==
    << [line |-> "Baseline", add |-> BaselineScore] >>
    \o (IF numLe(mileage, LowMileageLimit)
        THEN << [line |-> "Low mileage", add |-> LowMileageBonus] >> ELSE << >>)
    \o (IF numLe(mileage, ModerateMileageLimit)
        THEN << [line |-> "Moderate mileage", add |-> ModerateMileageBonus] >> ELSE << >>)
    \o (IF numLt(speedMax, ExtremeSpeed)
        THEN << [line |-> "No extreme speed", add |-> NoExtremeSpeedBonus] >> ELSE << >>)

RECURSIVE sumOf(_)
sumOf(steps) ==
    IF Len(steps) = 0 THEN 0 ELSE steps[1].add + sumOf(SubSeq(steps, 2, Len(steps)))

\* submit-prove-job: expectedScore after Math.min(100, expectedScore)
expectedScoreSubmit(mileage, speedMax) ==
    min(MaxScore, sumOf(scoreBreakdown(mileage, speedMax)))

\* submit-prove-job: if (>= 71) { "LOW" } else if (>= 41) { "MEDIUM" } else { "HIGH" }
expectedBandSubmit(score) ==
    IF score >= LowBandFloor THEN "LOW"
    ELSE IF score >= MediumBandFloor THEN "MEDIUM"
    ELSE "HIGH"

\* The preview a script prints for the inputs held in scorer
ScorePreview(score, band) ==
    LET dataPoints == toNumber(scorer.data_points)
    IN  /\ scorer' = [scorer EXCEPT !.ran = TRUE,
                                    !.score = score,
                                    !.band = band,
                                    !.warned = numLt(dataPoints, SufficientData)]
        /\ pc' = "submit"
        /\ UNCHANGED << domain, exitCode, policy, policyValidated, now, completedAt,
                        fallbackDate, ageDays, ttlDays, claims, report, mode, env,
                        calls, step, proof, ext >>

\* index: the warning is printed before the score
ExpectedScoreIndex ==
    /\ pc = "score"
    /\ scorer.script = "index"
    /\ ScorePreview(expectedScore(toNumber(scorer.mileage_90d),
                                  toNumber(scorer.speed_max)),
                    expectedBand(expectedScore(toNumber(scorer.mileage_90d),
                                               toNumber(scorer.speed_max))))
    /\ out' = out \o (IF numLt(toNumber(scorer.data_points), SufficientData)
                      THEN << Line("WARNING: Insufficient data", 0, << >>) >>
                      ELSE << >>)
                  \o << Line("Expected Score",
                             expectedScore(toNumber(scorer.mileage_90d),
                                           toNumber(scorer.speed_max)), << >>),
                        Line("Expected Band", 0,
                             << expectedBand(expectedScore(toNumber(scorer.mileage_90d),
                                                           toNumber(scorer.speed_max))) >>) >>

\* submit-prove-job: the warning is printed after the band
ExpectedScoreSubmit ==
    /\ pc = "score"
    /\ scorer.script = "submit-prove-job"
    /\ ScorePreview(expectedScoreSubmit(toNumber(scorer.mileage_90d),
                                        toNumber(scorer.speed_max)),
                    expectedBandSubmit(expectedScoreSubmit(toNumber(scorer.mileage_90d),
                                                           toNumber(scorer.speed_max))))
    /\ out' = out \o [i \in 1..Len(scoreBreakdown(toNumber(scorer.mileage_90d),
                                                   toNumber(scorer.speed_max))) |->
                         Line(scoreBreakdown(toNumber(scorer.mileage_90d),
                                             toNumber(scorer.speed_max))[i].line,
                              scoreBreakdown(toNumber(scorer.mileage_90d),
                                             toNumber(scorer.speed_max))[i].add, << >>)]
                  \o << Line("Total Score",
                             expectedScoreSubmit(toNumber(scorer.mileage_90d),
                                                 toNumber(scorer.speed_max)), << >>),
                        Line("Expected Risk Band", 0,
                             << expectedBandSubmit(
                                   expectedScoreSubmit(toNumber(scorer.mileage_90d),
                                                       toNumber(scorer.speed_max))) >>) >>
                  \o (IF numLt(toNumber(scorer.data_points), SufficientData)
                      THEN << Line("WARNING: Insufficient data", 0, << >>) >>
                      ELSE << >>)

\* The inputs object handed to submitProveJob
InputsOf(sc) ==
    [submitted |-> TRUE, mileage_90d |-> sc.mileage_90d,
     data_points |-> sc.data_points, speed_max |-> sc.speed_max]

NotSent == [submitted |-> FALSE, mileage_90d |-> << >>, data_points |-> << >>,
            speed_max |-> << >>]

\* The job submitted only when the preview found sufficient data
SubmitProveJobGated ==
    /\ pc = "submit"
    /\ IF scorer.warned
       THEN /\ calls' = calls
            /\ scorer' = scorer
            /\ Exit1(<< Line("Insufficient data", 0, << >>) >>)
       ELSE /\ calls' = Append(calls, "submitProveJob")
            /\ scorer' = [scorer EXCEPT !.sent = InputsOf(scorer)]
            /\ \/ Goto(<< Line("Job ID", 0, << >>) >>, "poll")
               \/ \E msg \in ErrorTexts : Exit1(<< Line("Error:", 0, << msg >>) >>)
    /\ UNCHANGED << domain, policy, policyValidated, now, completedAt, fallbackDate,
                    ageDays, ttlDays, claims, report, mode, env, step, proof, ext >>

\* client.submitProveJob(circuitId, VEHICLE_INPUTS, ...): a rejection is
\* rethrown by the catch block and ends in main().catch with process.exit(1)
SubmitProveJob ==
    /\ pc = "submit"
    /\ calls' = Append(calls, "submitProveJob")
    /\ scorer' = [scorer EXCEPT !.sent = InputsOf(scorer)]
    /\ \/ Goto(<< Line("Job ID", 0, << >>) >>, "poll")
       \/ \E msg \in ErrorTexts : Exit1(<< Line("Error:", 0, << msg >>) >>)
    /\ UNCHANGED << domain, policy, policyValidated, now, completedAt, fallbackDate,
                    ageDays, ttlDays, claims, report, mode, env, step, proof, ext >>

\* The proof shared whenever VERIFIER_ORG_ID is set, whatever the job status
shouldShareAnyStatus(status, verifierOrgId) == verifierOrgId

\* if (job.status === "completed") { ... if (verifierOrgId) { shareProof } }
shouldShare(status, verifierOrgId) == status = "completed" /\ verifierOrgId

\* The script runs to its end: the process ends with the default exit code
Finish(lines) ==
    /\ out' = out \o lines
    /\ pc' = "done"
    /\ exitCode' = 0

\* client.waitForProveJob and the display of its result; a TimeoutError is
\* caught and reported, any other error is rethrown to main().catch
WaitForProveJob ==
    /\ pc = "poll"
    /\ calls' = Append(calls, "waitForProveJob")
    /\ \/ \E status \in JobStatuses :
             /\ scorer' = [scorer EXCEPT !.jobStatus = status]
             /\ IF shouldShare(status, scorer.verifierOrgId)
                THEN Goto(<< Line("Status", 0, << status >>),
                             Line("Proof generated successfully", 0, << >>),
                             Line("Sharing Proof", 0, << >>) >>, "share")
                ELSE IF status = "completed"
                THEN Finish(<< Line("Status", 0, << status >>),
                               Line("Proof generated successfully", 0, << >>) >>)
                ELSE IF status = "failed"
                THEN Finish(<< Line("Status", 0, << status >>),
                               Line("Error:", 0, << "job.error" >>) >>)
                ELSE Finish(<< Line("Status", 0, << status >>) >>)
       \/ /\ scorer' = [scorer EXCEPT !.jobStatus = "timeout"]
          /\ Finish(<< Line("Job timed out waiting for completion", 0, << >>) >>)
       \/ /\ scorer' = [scorer EXCEPT !.jobStatus = "threw"]
          /\ \E msg \in ErrorTexts : Exit1(<< Line("Error:", 0, << msg >>) >>)
    /\ UNCHANGED << domain, policy, policyValidated, now, completedAt, fallbackDate,
                    ageDays, ttlDays, claims, report, mode, env, step, proof, ext >>

\* client.shareProof({ proveJobId, verifierOrgId, note })
ShareProof ==
    /\ pc = "share"
    /\ calls' = Append(calls, "shareProof")
    /\ scorer' = scorer
    /\ \/ Finish(<< Line("Shared proof ID", 0, << >>) >>)
       \/ \E msg \in ErrorTexts : Exit1(<< Line("Error:", 0, << msg >>) >>)
    /\ UNCHANGED << domain, policy, policyValidated, now, completedAt, fallbackDate,
                    ageDays, ttlDays, claims, report, mode, env, step, proof, ext >>

\* Values of mileage_90d, data_points and speed_max the scripts are edited to
MileageInputs ==
    { << "5", "0", "0" >>, << "2", "5", "0", "0" >>, << "3", "0", "0", "0" >>,
      << "3", "0", "0", "1" >>, << "4", "5", "0", "0" >>, << "5", "0", "0", "0" >>,
      << "5", "0", "0", "1" >>, << "7", "0", "0", "0" >> }

DataPointInputs ==
    { << "5", "0" >>, << "9", "9" >>, << "1", "0", "0" >>, << "3", "0", "0" >>,
      << "4", "5", "0" >>, << "5", "0", "0" >> }

SpeedInputs ==
    { << "6", "0" >>, << "7", "2" >>, << "8", "5" >>, << "9", "9" >>,
      << "1", "0", "0" >>, << "1", "1", "0" >>, << "f", "a", "s", "t" >> }

InitScorer ==
    /\ domain = "vehicle"
    /\ pc = "score"
    /\ exitCode = -1
    /\ policy = NoPolicy
    /\ policyValidated = FALSE
    /\ out = << >>
    /\ now = Now
    /\ completedAt = NoTime
    /\ fallbackDate = 0
    /\ ageDays = 0
    /\ ttlDays = 0
    /\ claims = << >>
    /\ report = NoReport
    /\ mode = "none"
    /\ env = NoEnv
    /\ calls = << >>
    /\ step = 0
    /\ proof = NoProof
    /\ ext = NoExt
    /\ scorer \in { [ran |-> FALSE, script |-> sc, mileage_90d |-> m, data_points |-> d,
                     speed_max |-> v, score |-> 0, band |-> "", warned |-> FALSE,
                     sent |-> NotSent, verifierOrgId |-> org, jobStatus |-> "none"] :
                      sc \in { "index", "submit-prove-job" }, org \in BOOLEAN,
                      m \in MileageInputs, d \in DataPointInputs, v \in SpeedInputs }

NextScorer ==
    \/ ExpectedScoreIndex
    \/ ExpectedScoreSubmit
    \/ SubmitProveJob
    \/ WaitForProveJob
    \/ ShareProof

SpecScorer == InitScorer /\ [][NextScorer]_vars

----------------------------------------------------------------------------
(* Properties of the policy validator, checked under SpecValidate *)

Validated == pc # "validate"
Target == IF domain = "vehicle" THEN "riskBand" ELSE "approved"
DisclosedTag == IF domain = "vehicle" THEN "Risk band is disclosed"
                ELSE "Approval status is disclosed"
MissingTag == IF domain = "vehicle" THEN "Policy missing required 'riskBand' output"
              ELSE "Policy missing required 'approved' output"
ZeroDot(v) == Len(v) >= 2 /\ SubSeq(v, 1, 2) = << "0", "." >>
HasTarget == \E i \in 1..Len(policy.outputs) : policy.outputs[i].name = Target
RejectedFatally == pc = "exit" /\ exitCode = 1 /\ ~policyValidated
Verdict(dom, p) == IF dom = "vehicle" THEN validatePolicyRisk(p) ELSE validatePolicyCredit(p)

\* C1 as stated: validatePolicy accepts exactly the policies whose version
\* starts with "0." (accepts every "0." version, rejects every other one).
C1_AcceptsIffZeroDot ==
    Validated => (policyValidated <=> ZeroDot(policy.version))

\* C1 amended: every version not starting with "0." is rejected fatally as
\* unsupported; a version starting with "0." passes the version check, and the
\* policy is then accepted exactly when the subject check (vehicle-risk only)
\* and the required-output check pass as well.
C1_VersionGate ==
    Validated =>
        /\ ~ZeroDot(policy.version) =>
              RejectedFatally /\ "Unsupported policy version" \in Tags(out)
        /\ ZeroDot(policy.version) =>
              /\ "Unsupported policy version" \notin Tags(out)
              /\ policyValidated <=>
                    /\ domain = "vehicle" => policy.subject.type = "vehicle"
                    /\ HasTarget

C1_Witness ==
    /\ Validated /\ policyValidated /\ pc = "freshness"
    /\ Len(policy.version) = 3 /\ ZeroDot(policy.version)

\* C2: a policy whose subject type does not match the domain's subject never
\* reaches the freshness check ("vehicle" for vehicle-risk; for credit-score a
\* vehicle subject or a missing subject type is a mismatch).
SubjectMatches(dom, t) ==
    IF dom = "vehicle" THEN t = "vehicle" ELSE t \notin { "vehicle", Undefined }

C2_SubjectGate ==
    pc = "freshness" => SubjectMatches(domain, policy.subject.type)

\* C3: every policy whose outputs list has no output with the target name is
\* rejected fatally (exit 1), whatever other outputs the list holds.
C3_MissingOutputRejected ==
    (Validated /\ ~HasTarget) => RejectedFatally

C3_Witness ==
    /\ Validated /\ ~HasTarget /\ Len(policy.outputs) = 2
    /\ RejectedFatally /\ MissingTag \in Tags(out)

\* C4: whenever the vehicle-risk validation passes and the riskBand output has
\* derivation kind BAND, its band table is present and non-empty and the
\* ordered labels are recorded among the findings.
C4_BandTableRequired ==
    (domain = "vehicle" /\ pc = "freshness"
        /\ policy.outputs[findOutput(policy.outputs, "riskBand")].derive.kind = "BAND")
    => LET d == policy.outputs[findOutput(policy.outputs, "riskBand")].derive
       IN  /\ d.hasBands
           /\ Len(d.bands) > 0
           /\ \E i \in 1..Len(out) :
                 out[i].tag = "Risk bands" /\ out[i].labels = bandLabels(d.bands)

\* C5: the verdict does not depend on the disclosure set: replacing
\* disclosure by any other value gives the same verdict and the same findings
\* up to the "is disclosed" finding; a declared but undisclosed target output
\* is accepted; the "is disclosed" finding is recorded exactly when the policy
\* is accepted and the target is in exposeClaims.
WithoutDisclosed(lines) ==
    SelectSeq(lines, LAMBDA l : l.tag \notin { "Risk band is disclosed",
                                               "Approval status is disclosed" })

C5_DisclosureNotGating ==
    Validated =>
        /\ \A d \in Disclosures :
              LET r == Verdict(domain, [policy EXCEPT !.disclosure = d])
              IN  /\ r.ok = policyValidated
                  /\ policyValidated =>
                        WithoutDisclosed(r.findings)
                          = WithoutDisclosed(SubSeq(out, 4, Len(out)))
        /\ (DisclosedTag \in Tags(out))
              <=> (policyValidated /\ policy.disclosure.defined
                     /\ policy.disclosure.exposeDefined
                     /\ Target \in policy.disclosure.exposeClaims)
        /\ (ZeroDot(policy.version) /\ HasTarget
              /\ (domain = "vehicle" => policy.subject.type = "vehicle"))
           => policyValidated

C5_Witness ==
    /\ Validated /\ policyValidated /\ HasTarget
    /\ policy.disclosure.exposeDefined
    /\ Target \notin policy.disclosure.exposeClaims
    /\ DisclosedTag \notin Tags(out)

----------------------------------------------------------------------------
(* Properties of the freshness check *)

Checked == pc # "freshness"
DefaultTtl == IF domain = "vehicle" THEN 90 ELSE 30

\* N written with exactly w decimal digits (zero padded)
RECURSIVE Pow10(_)
Pow10(k) == IF k = 0 THEN 1 ELSE 10 * Pow10(k - 1)
PadDecimal(N, w) == [i \in 1..w |-> Digits[((N \div Pow10(w - i)) % 10) + 1]]

\* The TTL string with an optional leading P/p and the closing D/d removed
NumeralPart(s) ==
    IF Len(s) >= 1 /\ s[1] \in { "P", "p" }
    THEN SubSeq(s, 2, Len(s) - 1)
    ELSE SubSeq(s, 1, Len(s) - 1)

\* The string is P<N>D or <N>d, letters in either case, N a decimal numeral
OfTtlForm(s) ==
    /\ Len(s) >= 2
    /\ s[Len(s)] \in { "D", "d" }
    /\ Len(NumeralPart(s)) >= 1
    /\ \A i \in 1..Len(NumeralPart(s)) :
          NumeralPart(s)[i] \in { Digits[j] : j \in 1..10 }

\* C6: for a TTL string P<N>D or <N>d (either case) checkFreshness uses
\* exactly N days; for any other string, for a policy without validity.ttl and
\* for no policy it uses the domain default (90 vehicle-risk, 30 credit-score).
C6_TtlParsed ==
    Checked =>
        IF policy.isNull THEN ttlDays = DefaultTtl
        ELSE IF ~policy.validity.ttlDefined THEN ttlDays = DefaultTtl
        ELSE IF OfTtlForm(policy.validity.ttl)
        THEN LET num == NumeralPart(policy.validity.ttl)
             IN  \E N \in 0..(Pow10(Len(num)) - 1) :
                    PadDecimal(N, Len(num)) = num /\ ttlDays = N
        ELSE ttlDays = DefaultTtl

C6_Witness ==
    /\ Checked /\ ~policy.isNull /\ policy.validity.ttlDefined
    /\ policy.validity.ttl = << "p", "0", "9", "d" >>
    /\ ttlDays = 9

\* C7: checkFreshness passes exactly when age in whole days <= TTL in days:
\* age = ttl is fresh and the run continues, age = ttl + 1 (or more) ends the
\* run with exit 1.
C7_FreshIffAgeLeTtl ==
    Checked =>
        /\ \A d \in 0..200 :
              (LET elapsed == now - (IF completedAt.present THEN completedAt.t
                                    ELSE fallbackDate)
               IN  d * HoursPerDay <= elapsed /\ elapsed < (d + 1) * HoursPerDay)
              => ageDays = d
        /\ ageDays <= ttlDays => pc = "issue" /\ exitCode = -1
                                   /\ "Status: Fresh" \in Tags(out)
        /\ ageDays >= ttlDays + 1 => pc = "exit" /\ exitCode = 1
                                       /\ "Status: EXPIRED" \in Tags(out)

C7_Witness ==
    /\ Checked /\ ttlDays > 0 /\ ageDays = ttlDays /\ pc = "issue"

----------------------------------------------------------------------------
(* Properties of the claim interpretation, checked under SpecReport *)

Reported == pc = "done" /\ report.printed

\* The band table of the policy output named "riskBand" (empty when the
\* policy is null or that output has no band table)
TargetBands ==
    IF policy.isNull THEN << >>
    ELSE LET k == CHOOSE i \in 1..Len(policy.outputs) : policy.outputs[i].name = "riskBand"
         IN  IF policy.outputs[k].derive.hasBands
             THEN policy.outputs[k].derive.bands ELSE << >>

NumericRiskBand == "riskBand" \in DOMAIN claims /\ claims["riskBand"].t = "number"

\* C8: for a claim index within the policy's band table the label shown is
\* exactly that band's label; for an index at or beyond both the policy's
\* table and the built-in table [HIGH, MEDIUM, LOW] it is "Band <index>".
C8_IndexSafe ==
    (Reported /\ domain = "vehicle" /\ NumericRiskBand /\ claims["riskBand"].n >= 0) =>
        LET i == claims["riskBand"].n IN
        /\ i < Len(TargetBands) => report.summary = TableLabel(TargetBands[i + 1].label)
        /\ (i >= Len(TargetBands) /\ i >= 3) => report.summary = SynthLabel(Idx(i))

\* C9: the band table used to label the riskBand claim is the one of the
\* output named "riskBand", wherever that output stands in the outputs list;
\* a label of another output's table is never shown.
C9_TargetTableUsed ==
    (Reported /\ domain = "vehicle" /\ NumericRiskBand /\ claims["riskBand"].n >= 0) =>
        LET i == claims["riskBand"].n IN
        /\ i < Len(TargetBands) => report.summary = TableLabel(TargetBands[i + 1].label)
        /\ \A j \in 1..Len(OtherLabels) : report.summary # TableLabel(OtherLabels[j])

\* C10: in the credit-score report a claim value 1, true or "1" is shown as
\* APPROVED and any other value as NOT APPROVED; a report for claims without
\* the approval claim shows NOT APPROVED.
Annotated(text) == \E k \in DOMAIN report.annotations : report.annotations[k] = text

C10_PassFail ==
    (Reported /\ domain = "credit") =>
        /\ \A k \in DOMAIN claims \cap { "approved", "outputValue" } :
              report.annotations[k] =
                 IF claims[k] \in { Num(1), Bool(TRUE), Str(<< "1" >>) }
                 THEN "APPROVED" ELSE "NOT APPROVED"
        /\ (DOMAIN claims \cap { "approved", "outputValue" } = {})
              => Annotated("NOT APPROVED")

----------------------------------------------------------------------------
(* Properties of main, verifyDirect and verifySharedProof, checked under Spec *)

Ended == pc \in { "exit", "done" }
HasLine(tag) == tag \in Tags(out)
Called(name) == \E i \in 1..Len(calls) : calls[i] = name
Echoed(tag, text) ==
    \E i \in 1..Len(out) : out[i].tag = tag /\ out[i].labels = << text >>

\* C11: in the shared variant a revoked shared proof ends the run with exit
\* code 1 before the embedded policy is read and before getPolicy,
\* listPolicies, validation, the freshness check, issuance or verification.
Revoked == mode = "shared" /\ proof.fetched /\ proof.revoked

C11_RevokedStopsFirst ==
    Revoked =>
        /\ pc = "exit" /\ exitCode = 1
        /\ HasLine("This shared proof has been revoked")
        /\ calls = << "getSharedProof" >>
        /\ policy = NoPolicy /\ ~policyValidated
        /\ ~HasLine("Found policy") /\ ~HasLine("Proof age")
        /\ ext = NoExt /\ report = NoReport

C11_Witness == Revoked /\ proof.embedded /\ proof.hasPolicyId /\ pc = "exit"

\* C12: in the direct variant a job whose status is not exactly "completed"
\* ends the run with exit code 1 and a message carrying that status, and
\* nothing is called after getProveJob.
NotCompleted == mode = "direct" /\ proof.fetched /\ proof.status # "completed"

C12_OnlyCompletedProceeds ==
    NotCompleted =>
        /\ pc = "exit" /\ exitCode = 1
        /\ Echoed("Job status is", proof.status)
        /\ calls = << "getProveJob" >>
        /\ policy = NoPolicy /\ ~HasLine("Proof age")
        /\ ext = NoExt /\ report = NoReport

C12_Witness == NotCompleted /\ proof.status = "running" /\ pc = "exit"

\* C13: in both variants, when the lookup by id returns nothing or throws
\* and the listing scan finds no match or throws, the run is not aborted:
\* validation is skipped and the freshness check runs with the default TTL.
PolicyUnavailable ==
    /\ ext.getPolicy \in { "null", "threw" }
    /\ ext.listPolicies \in { "nomatch", "threw" }

C13_UnavailablePolicyRecovered ==
    PolicyUnavailable =>
        /\ policy = NoPolicy /\ ~policyValidated
        /\ HasLine("Skipping policy validation")
        /\ ~HasLine("Found policy")
        /\ ~HasLine("uncaught error")
        /\ pc \in { "freshness", "issue", "verify", "report", "done", "exit" }
        /\ pc # "freshness" => HasLine("Proof age") /\ ttlDays = DefaultTtl

\* C14: the step numbers printed are 1, 2, 3, ... without gap or repeat; the
\* freshness check is step 4 exactly when the validation step 3 ran, else 3.
IsStep(l) == l.tag = "Step"
StepNums ==
    LET steps == SelectSeq(out, IsStep)
    IN  [i \in 1..Len(steps) |-> steps[i].num]

C14_StepsGapFree ==
    /\ \A i \in 1..Len(StepNums) : StepNums[i] = i
    /\ \A i \in 1..Len(out) :
          out[i].tag = "Proof age" =>
             /\ i > 1 /\ IsStep(out[i - 1])
             /\ out[i - 1].num = IF HasLine("Found policy") THEN 4 ELSE 3
    /\ pc = "done" => Len(StepNums) = IF HasLine("Found policy") THEN 7 ELSE 6

C14_Witness ==
    pc = "done" /\ mode # "none" /\ ~HasLine("Found policy") /\ Len(StepNums) = 6

\* C15: a report is printed only after issuance succeeded and
\* verifyCredential returned valid = true; an issuance failure, a
\* verification exception and valid = false each end the run with exit code
\* 1 and a message carrying the external error text, without any report.
Fatal(tag) ==
    /\ pc = "exit" /\ exitCode = 1
    /\ Echoed(tag, ext.error)
    /\ report = NoReport

C15_ReportOnlyAfterValidCredential ==
    /\ report.printed => ext.issue = "ok" /\ ext.verify = "valid"
    /\ ext.issue = "threw" =>
          Fatal("Failed to issue credential") /\ ~Called("verifyCredential")
    /\ ext.verify = "threw" => Fatal("Credential verification error")
    /\ ext.verify = "invalid" => Fatal("Credential is invalid")

C15_Witness == ext.issue = "ok" /\ ext.verify = "invalid" /\ pc = "exit"

\* C16: a run ends with exit code 0 only after a report was printed, and
\* every run that ends without a report ends with exit code 1, also when an
\* external fetch fails with an exception.
C16_ExitCodes ==
    Ended => IF report.printed THEN exitCode = 0 ELSE exitCode = 1

\* C17: whenever a run of either verifier ends because the proof is expired,
\* the output carries the hint to request a fresh proof, the expired status
\* and exit code 1.
C17_ExpiredHint ==
    HasLine("Status: EXPIRED") =>
        /\ pc = "exit" /\ exitCode = 1
        /\ HasLine("request a fresh proof")

\* C18: direct variant, completed job, policy resolved and accepted with the
\* target output disclosed, proof fresh, credential issued and valid: the
\* run reaches the report, ends with exit code 0, and the band label and
\* recommendation shown are those of the target output's band table.
EndToEnd ==
    /\ mode = "direct"
    /\ proof.status = "completed"
    /\ ~policy.isNull
    /\ policyValidated
    /\ ext.issue = "ok"
    /\ ext.verify = "valid"

C18_EndToEndDirect ==
    (EndToEnd /\ isDisclosed(policy, Target)) =>
        /\ pc \in { "report", "done" }
        /\ pc = "done" =>
              /\ report.printed /\ exitCode = 0
              /\ (domain = "vehicle" /\ NumericRiskBand
                  /\ claims["riskBand"].n < Len(TargetBands)) =>
                    LET label == TableLabel(TargetBands[claims["riskBand"].n + 1].label)
                    IN  /\ report.summary = label
                        /\ report.recommendation = recommendationOf(label)

\* C19: the interpretation of the claims never aborts the run: once
\* verifyCredential has returned valid = true the run is at the report or
\* has printed it and ended with exit code 0, whatever the claims and the
\* policy are.
C19_InterpreterTotal ==
    ext.verify = "valid" =>
        /\ pc \in { "report", "done" }
        /\ pc = "done" => report.printed /\ exitCode = 0

C19_Witness ==
    /\ Reported /\ ext.verify = "valid"
    /\ domain = "vehicle" /\ policy.isNull
    /\ "riskBand" \notin DOMAIN claims

----------------------------------------------------------------------------
(* Properties of the expected-score preview, checked under SpecScorer *)

Scenario(m, d, v) ==
    /\ scorer.ran
    /\ scorer.mileage_90d = m /\ scorer.data_points = d /\ scorer.speed_max = v

\* C20: the preview gives score 100 and band LOW for {2500, 450, 72}, score
\* 65 and band MEDIUM for {4500, 300, 85}, and score 50 and band HIGH for
\* {7000, 500, 110}.
C20_Scenarios ==
    /\ Scenario(<< "2", "5", "0", "0" >>, << "4", "5", "0" >>, << "7", "2" >>)
          => scorer.score = 100 /\ scorer.band = "LOW"
    /\ Scenario(<< "4", "5", "0", "0" >>, << "3", "0", "0" >>, << "8", "5" >>)
          => scorer.score = 65 /\ scorer.band = "MEDIUM"
    /\ Scenario(<< "7", "0", "0", "0" >>, << "5", "0", "0" >>, << "1", "1", "0" >>)
          => scorer.score = 50 /\ scorer.band = "HIGH"

\* C21: for all inputs the preview score lies in [50, 100]: the baseline 50
\* plus each bonus on its own (+25 for mileage <= 3000, +15 for mileage <=
\* 5000, +10 for speedMax < 100), capped at 100; mileage <= 3000 earns both
\* mileage bonuses.
NumberOf(str) == parseInt10(str)

C21_ScoreRange ==
    scorer.ran =>
        LET m == scorer.mileage_90d
            v == scorer.speed_max
            sum == 50 + (IF allDigits(m) /\ NumberOf(m) <= 3000 THEN 25 ELSE 0)
                      + (IF allDigits(m) /\ NumberOf(m) <= 5000 THEN 15 ELSE 0)
                      + (IF allDigits(v) /\ NumberOf(v) < 100 THEN 10 ELSE 0)
        IN  /\ 50 <= scorer.score /\ scorer.score <= 100
            /\ scorer.score = IF sum > 100 THEN 100 ELSE sum
            /\ (allDigits(m) /\ NumberOf(m) <= 3000) => scorer.score >= 50 + 25 + 15

C21_Witness ==
    /\ scorer.ran /\ scorer.score = 90
    /\ scorer.mileage_90d = << "3", "0", "0", "0" >>
    /\ scorer.speed_max = << "1", "0", "0" >>

\* C22: the preview gates nothing: for every input, also with fewer than
\* 100 data points, the prove job is submitted with the unchanged inputs,
\* and the preview's score and band decide nothing after it.
C22_PreviewAdvisory ==
    /\ (scorer.ran /\ pc # "submit") =>
          /\ Called("submitProveJob")
          /\ scorer.sent = InputsOf(scorer)
          /\ pc = "exit" => HasLine("Error:")
    /\ ~scorer.ran => pc = "score" /\ calls = << >>

C22_Witness ==
    scorer.ran /\ scorer.warned /\ scorer.sent.submitted /\ pc = "poll"

----------------------------------------------------------------------------
(* Further properties of main, verifyDirect and verifySharedProof (Spec) and *)
(* of checkFreshness (SpecFresh)                                            *)

\* C23: a configuration error (the selected mode's API key missing, or no
\* selector set) ends the run with exit code 1 before any external call.
ConfigError ==
    \/ env.PROVE_JOB_ID /\ ~env.BIND_API_KEY
    \/ ~env.PROVE_JOB_ID /\ env.SHARED_PROOF_ID /\ ~env.BIND_VERIFIER_API_KEY
    \/ ~env.PROVE_JOB_ID /\ ~env.SHARED_PROOF_ID

C23_ConfigErrorFirst ==
    (ConfigError /\ pc # "main") =>
        /\ pc = "exit" /\ exitCode = 1
        /\ calls = << >> /\ mode = "none"
        /\ Len(out) = 1
        /\ out[1].tag =
              IF env.PROVE_JOB_ID
              THEN "BIND_API_KEY environment variable is required"
              ELSE IF env.SHARED_PROOF_ID
              THEN "BIND_VERIFIER_API_KEY environment variable is required"
              ELSE "No proof specified"

C23_Witness ==
    /\ pc = "exit" /\ env.PROVE_JOB_ID /\ ~env.BIND_API_KEY
    /\ env.SHARED_PROOF_ID /\ env.BIND_VERIFIER_API_KEY

\* C24: the states run in the order FetchProof, ResolvePolicy, (optional)
\* ValidatePolicy, CheckFreshness, IssueCredential, VerifyCredential,
\* InterpretAndReport; only ValidatePolicy may be skipped; the fetch, the
\* issuance and the verification are each performed at most once.
Rank(call) ==
    CASE call \in { "getProveJob", "getSharedProof" } -> 1
      [] call = "getCircuit" -> 2
      [] call = "getPolicy" -> 3
      [] call = "listPolicies" -> 4
      [] call = "issueProofCredential" -> 6
      [] call = "verifyCredential" -> 7
      [] OTHER -> 0

FirstLine(tag) == CHOOSE i \in 1..Len(out) : out[i].tag = tag /\ \A j \in 1..(i - 1) : out[j].tag # tag
Before(a, b) == (HasLine(a) /\ HasLine(b)) => FirstLine(a) < FirstLine(b)

C24_StateOrder ==
    /\ \A i, j \in 1..Len(calls) : i < j => Rank(calls[i]) < Rank(calls[j])
    /\ Len(calls) > 0 => Rank(calls[1]) = 1
    /\ Before("Found policy", "Proof age")
    /\ Before("Proof age", "Credential ID")
    /\ Before("Credential ID", "Issuer")
    /\ Before("Issuer", "Verification Complete")
    /\ HasLine("Found policy") => Len(calls) > 0 /\ proof.fetched
    /\ HasLine("Proof age") =>
          /\ proof.fetched
          /\ mode = "direct" => Called("getCircuit")
          /\ ~Called("issueProofCredential") \/ HasLine("Status: Fresh")
    /\ Called("issueProofCredential") => HasLine("Status: Fresh")
    /\ Called("verifyCredential") => ext.issue = "ok" /\ HasLine("Credential ID")
    /\ report.printed => ext.verify = "valid" /\ HasLine("Issuer")

C24_Witness ==
    /\ Reported /\ mode = "shared" /\ ~HasLine("Found policy")
    /\ calls = << "getSharedProof", "getPolicy", "listPolicies",
                  "issueProofCredential", "verifyCredential" >>

\* C25: after job-not-completed, a revoked or expired share, a missing
\* policy id, a policy rejection or an expired proof nothing more runs; in
\* particular issueProofCredential is never called for a rejected policy or
\* a failed freshness check.
PreconditionTags ==
    { "Job status is", "This shared proof has been revoked",
      "This shared proof has expired", "This proof is not associated with a policy" }
RejectionTags ==
    { "Unsupported policy version", "Unexpected subject type",
      "Policy missing required 'riskBand' output",
      "Policy missing required 'approved' output" }

C25_FatalHalts ==
    \A i \in 1..Len(out) :
        /\ out[i].tag \in PreconditionTags =>
              /\ pc = "exit" /\ exitCode = 1 /\ i = Len(out)
              /\ Len(calls) = 1 /\ report = NoReport
        /\ out[i].tag \in RejectionTags =>
              /\ pc = "exit" /\ exitCode = 1 /\ i = Len(out)
              /\ ~HasLine("Proof age")
              /\ ~Called("issueProofCredential") /\ ~Called("verifyCredential")
              /\ report = NoReport
        /\ out[i].tag = "Status: EXPIRED" =>
              /\ pc = "exit" /\ exitCode = 1
              /\ \A j \in (i + 1)..Len(out) : out[j].tag = "request a fresh proof"
              /\ ~Called("issueProofCredential") /\ ~Called("verifyCredential")
              /\ report = NoReport

C25_Witness ==
    /\ pc = "exit" /\ mode = "direct"
    /\ HasLine("Unsupported policy version")
    /\ calls = << "getProveJob", "getCircuit", "getPolicy" >>

\* C26: direct variant: getPolicy is tried first; listPolicies is called
\* only if getPolicy threw or returned nothing, and then the policy with the
\* circuit's policy id is taken; validation is skipped only if both sources
\* yield nothing; a policy found by getPolicy is never replaced.
C26_FallbackChain ==
    mode = "direct" =>
        /\ Called("listPolicies") =>
              /\ ext.getPolicy \in { "threw", "null" }
              /\ \E i, j \in 1..Len(calls) :
                    i < j /\ calls[i] = "getPolicy" /\ calls[j] = "listPolicies"
        /\ ext.getPolicy = "found" =>
              /\ ~Called("listPolicies") /\ ext.listPolicies = "none"
              /\ ~policy.isNull /\ policy.id = PolicyId
        /\ ext.listPolicies = "found" => ~policy.isNull /\ policy.id = PolicyId
        /\ HasLine("Skipping policy validation") <=> PolicyUnavailable
        /\ PolicyUnavailable => policy.isNull /\ ~HasLine("Found policy")
        /\ (~policy.isNull /\ pc # "validate") => HasLine("Found policy")

C26_Witness ==
    /\ mode = "direct" /\ ext.getPolicy = "threw" /\ ext.listPolicies = "found"
    /\ policy.id = PolicyId /\ HasLine("Found policy")

\* C27: shared variant: an embedded policySpec is the policy validated and
\* used for the TTL and the bands, and neither getPolicy nor listPolicies is
\* called.
EmbeddedUsable ==
    /\ mode = "shared" /\ proof.fetched /\ proof.embedded
    /\ sharedPrecondition(proof) = ""

C27_EmbeddedPreferred ==
    EmbeddedUsable =>
        /\ policy = proof.policySpec
        /\ ~Called("getPolicy") /\ ~Called("listPolicies")
        /\ ext.getPolicy = "none" /\ ext.listPolicies = "none"
        /\ pc # "validate" => HasLine("Found policy")
        /\ HasLine("Proof age") =>
              ttlDays = parseTtlDays(ttlStringOf(proof.policySpec,
                                                 IF domain = "vehicle"
                                                 THEN DefaultTtlStringRisk
                                                 ELSE DefaultTtlStringCredit),
                                     DefaultTtl)
        /\ (Reported /\ domain = "vehicle") =>
              report.summary = resolveBandLabel(claims, proof.policySpec)

C27_Witness ==
    /\ EmbeddedUsable /\ Reported
    /\ calls = << "getSharedProof", "issueProofCredential", "verifyCredential" >>
    /\ ttlDays = 1

\* C28: the shared-proof preconditions are checked in the order revocation,
\* expiry, policy association, before policy resolution; an expiresAt
\* strictly earlier than now is fatal, one equal to now, later or null is
\* not; a missing policy id is fatal.
PreconditionFatal(msg) ==
    /\ pc = "exit" /\ exitCode = 1
    /\ out[Len(out)].tag = msg
    /\ Tags(out) \cap PreconditionTags = { msg }
    /\ calls = << "getSharedProof" >> /\ policy = NoPolicy

C28_SharedPreconditions ==
    (mode = "shared" /\ proof.fetched) =>
        IF proof.revoked
        THEN PreconditionFatal("This shared proof has been revoked")
        ELSE IF proof.expiresAt.present /\ proof.expiresAt.t + 1 <= now
        THEN PreconditionFatal("This shared proof has expired")
        ELSE IF ~proof.hasPolicyId
        THEN PreconditionFatal("This proof is not associated with a policy")
        ELSE Tags(out) \cap PreconditionTags = {} /\ HasLine("Policy ID")

C28_Witness ==
    /\ mode = "shared" /\ proof.fetched /\ ~proof.revoked
    /\ proof.expiresAt = At(now) /\ proof.hasPolicyId
    /\ HasLine("Policy ID") /\ HasLine("Proof age")

\* C29 as stated: the proof age is the number of whole days between
\* provedAt and now truncated toward zero, also for a provedAt later than
\* now (less than a day ahead gives 0, not -1).
Elapsed == now - (IF completedAt.present THEN completedAt.t ELSE fallbackDate)

C29_AgeTruncated ==
    Checked =>
        \A d \in 0..200 :
            /\ (d * HoursPerDay <= Elapsed /\ Elapsed < (d + 1) * HoursPerDay)
                  => ageDays = d
            /\ (d * HoursPerDay <= 0 - Elapsed /\ 0 - Elapsed < (d + 1) * HoursPerDay)
                  => ageDays = 0 - d

\* C29 amended: the proof age is the floor of (now - provedAt) / 1 day: the
\* whole days elapsed when provedAt is not later than now, and -1 (not 0)
\* for a provedAt less than a day ahead of now.
C29_AgeFloored ==
    Checked =>
        /\ ageDays * HoursPerDay <= Elapsed
        /\ Elapsed < (ageDays + 1) * HoursPerDay
        /\ (0 - HoursPerDay <= Elapsed /\ Elapsed < 0) => ageDays = -1

C29_Witness == Checked /\ Elapsed = -1 /\ ageDays = -1 /\ pc = "issue"

\* C30: the proved-at time is completedAt whenever completedAt is present
\* and the creation timestamp only when it is absent; with completedAt
\* present the creation timestamp does not influence the verdict.
C30_ProvedAt ==
    HasLine("Proof age") =>
        /\ completedAt.present =>
              /\ ageDays = (now - completedAt.t) \div HoursPerDay
              /\ HasLine("Status: EXPIRED")
                    <=> (now - completedAt.t) \div HoursPerDay > ttlDays
        /\ ~completedAt.present =>
              ageDays = (now - fallbackDate) \div HoursPerDay

C30_Witness ==
    /\ HasLine("Status: Fresh") /\ completedAt.present
    /\ ageDays = 0 /\ ttlDays = 9
    /\ (now - fallbackDate) \div HoursPerDay = 91

----------------------------------------------------------------------------
(* Further properties of the claim interpretation, checked under SpecReport *)

IndexOf(v) ==
    IF v.t = "number" THEN Idx(v.n)
    ELSE IF v.t = "string"
    THEN (IF allDigits(v.s) THEN Idx(parseInt10(v.s)) ELSE NaN)
    ELSE Idx(0)

\* The label the verifier shows for a band index
LabelAt(i) ==
    LET bands == firstOutputBands(policy)
    IN  IF bands.defined /\ inRange(i, Len(bands.items))
        THEN TableLabel(bands.items[i.n + 1].label)
        ELSE IF inRange(i, 3) THEN TableLabel(RISK_BANDS[i.n + 1])
        ELSE SynthLabel(i)

\* C31 as stated: the claim under "riskBand" is used whenever that key is
\* present and the claim under "outputValue" only when it is absent; a
\* number is the index, a string is parsed as a number, every other value
\* (also no claim under either name) is index 0.
C31_ClaimReadIfPresent ==
    (Reported /\ domain = "vehicle") =>
        LET chosen == IF "riskBand" \in DOMAIN claims THEN claims["riskBand"]
                      ELSE claimOf(claims, "outputValue")
        IN  report.summary = LabelAt(IndexOf(chosen))

\* C31 amended: the claim under "riskBand" is used when it is present and
\* not null; the claim under "outputValue" is used when "riskBand" is
\* absent or null; a number is the index, a string is parsed as a number,
\* every other value (also no claim under either name) is index 0.
C31_ClaimReadIfNotNull ==
    (Reported /\ domain = "vehicle") =>
        LET chosen == IF "riskBand" \in DOMAIN claims /\ claims["riskBand"] # JsNull
                      THEN claims["riskBand"]
                      ELSE claimOf(claims, "outputValue")
        IN  report.summary = LabelAt(IndexOf(chosen))

C31_Witness ==
    /\ Reported /\ domain = "vehicle" /\ policy.isNull
    /\ "riskBand" \in DOMAIN claims /\ claims["riskBand"] = JsNull
    /\ claimOf(claims, "outputValue") = Num(2)
    /\ report.summary = TableLabel("LOW")

----------------------------------------------------------------------------
(* Further properties of the policy validator, checked under SpecValidate *)

\* C32: validatePolicy checks version, then subject type, then the required
\* output: a policy failing several checks is rejected with the reason of
\* the first failing check in that order, and nothing of a later check is
\* reported.
FirstFailure ==
    IF ~ZeroDot(policy.version) THEN "Unsupported policy version"
    ELSE IF ~SubjectMatches(domain, policy.subject.type) THEN "Unexpected subject type"
    ELSE IF ~HasTarget THEN MissingTag
    ELSE ""

C32_CheckOrder ==
    Validated =>
        IF FirstFailure = ""
        THEN policyValidated /\ HasLine("Policy validation passed")
        ELSE /\ RejectedFatally
             /\ out = << Line("Found policy", 0, << >>), Line("Step", 3, << >>),
                         Line(FirstFailure, 0, << >>) >>

----------------------------------------------------------------------------
(* Further properties of the verification run, checked under Spec *)

\* C33: every silent degradation is visible in the trace: a run that skips
\* policy validation says so, and a run that uses the domain default TTL
\* instead of a policy-derived TTL prints the TTL marked as default.
DefaultTtlUsed ==
    \/ policy.isNull
    \/ ~policy.validity.ttlDefined
    \/ ~OfTtlForm(policy.validity.ttl)

MarkedDefault ==
    \E i \in 1..Len(out) : out[i].tag = "Policy TTL" /\ out[i].labels = << "(default)" >>

C33_DegradationsVisible ==
    HasLine("Proof age") =>
        /\ ~HasLine("Found policy") =>
              \/ HasLine("Skipping policy validation")
              \/ HasLine("No policy associated with this circuit")
        /\ DefaultTtlUsed => MarkedDefault

----------------------------------------------------------------------------
(* Further properties of the expected-score preview, checked under SpecScorer *)

\* C34: the preview maps the score to a band by two cut points: score >= 71
\* gives LOW, 41 <= score <= 70 gives MEDIUM, score <= 40 gives HIGH, for
\* every score the preview can produce.
C34_BandCutPoints ==
    scorer.ran =>
        /\ scorer.score >= 71 => scorer.band = "LOW"
        /\ (41 <= scorer.score /\ scorer.score <= 70) => scorer.band = "MEDIUM"
        /\ scorer.score <= 40 => scorer.band = "HIGH"

C34_Witness == scorer.ran /\ scorer.score = 65 /\ scorer.band = "MEDIUM"

C36_CopiesAgree ==
    scorer.ran =>
        LET mileage == toNumber(scorer.mileage_90d)
            speedMax == toNumber(scorer.speed_max)
        IN  /\ scorer.score = expectedScore(mileage, speedMax)
            /\ scorer.score = expectedScoreSubmit(mileage, speedMax)
            /\ scorer.band = expectedBand(scorer.score)
            /\ scorer.band = expectedBandSubmit(scorer.score)

C36_Witness ==
    /\ scorer.ran /\ scorer.script = "submit-prove-job"
    /\ scorer.speed_max = << "1", "0", "0" >> /\ scorer.score = 65

\* C37: a resolved policy is never used unvalidated: whenever the policy is
\* non-null at the freshness check or later, validatePolicy ran on it and
\* accepted it, so policyValidated is true exactly when the policy is
\* non-null and no TTL or band table comes from a rejected or unvalidated one.
AtOrPastFreshness == pc = "freshness" \/ HasLine("Proof age")

C37_ValidatedBeforeUse ==
    AtOrPastFreshness =>
        /\ policyValidated = ~policy.isNull
        /\ ~policy.isNull =>
              /\ Verdict(domain, policy).ok
              /\ HasLine("Policy validation passed")
              /\ Before("Policy validation passed", "Proof age")

C37_Witness ==
    /\ Reported /\ ~policy.isNull /\ policyValidated
    /\ policy.validity.ttlDefined

\* C38: one report carries one decision: when the claims hold both the
\* canonical claim (riskBand or approved) and outputValue, every decision
\* annotation of the report shows the same outcome, in both verifiers.
CanonicalKey == IF domain = "vehicle" THEN "riskBand" ELSE "approved"

C38_OneDecision ==
    (Reported /\ { CanonicalKey, "outputValue" } \subseteq DOMAIN claims) =>
        /\ report.annotations[CanonicalKey] = report.annotations["outputValue"]
        /\ domain = "vehicle" =>
              /\ report.summary = report.annotations["riskBand"]
              /\ report.recommendation = recommendationOf(report.summary)

\* C39: in the submit flows shareProof is called only after waitForProveJob
\* returned a completed job and only when VERIFIER_ORG_ID is set, at most
\* once per run; never when the job failed, polling timed out or the
\* submission threw.
CountOf(name) == Cardinality({ i \in 1..Len(calls) : calls[i] = name })

C39_ShareAfterCompleted ==
    /\ (pc = "share" \/ Called("shareProof")) =>
          /\ scorer.jobStatus = "completed" /\ scorer.verifierOrgId
          /\ CountOf("shareProof") <= 1
          /\ \E i \in 1..Len(calls) :
                /\ calls[i] = "waitForProveJob"
                /\ \A j \in 1..Len(calls) : calls[j] = "shareProof" => i < j
    /\ (scorer.ran /\ scorer.jobStatus # "completed") => ~Called("shareProof")
    /\ (pc = "done" /\ scorer.jobStatus = "completed" /\ scorer.verifierOrgId)
          => Called("shareProof")

C39_Witness ==
    /\ pc = "done" /\ scorer.jobStatus = "completed"
    /\ calls = << "submitProveJob", "waitForProveJob", "shareProof" >>

====
